---- MODULE Spec2Model ----
(***************************************************************************)
(* Fantasy XI Wizard: the data synchronisation service                     *)
(* (backend/app/services/data_sync_service.py) reconciling the upstream    *)
(* FPL collections (teams, players, fixtures, gameweek stats) into the     *)
(* relational store (backend/app/db/models.py).                            *)
(***************************************************************************)
EXTENDS Integers, Sequences, FiniteSets, TLC

\* Python None / SQL NULL.  Every integer domain below is positive.
NULL == -1

\* settings.DATA_REFRESH_INTERVAL_HOURS
DATA_REFRESH_INTERVAL_HOURS == 6

---------------------------------------------------------------------------
\* Bounds of the model.

\* longest upstream list of one collection
MaxBatch == 2
\* the wall clock runs from 0 to MaxClock hours
MaxClock == 7
\* most rows a table under test holds when the service is constructed
MaxRows == 1

TeamIds == {1, 2}
TeamCodes == {1, 2}
TeamNames == {"Arsenal", "Chelsea"}
PlayerIds == {1, 2}
ElementTypes == {1, 2}
Costs == {50}
FixtureCodes == {1, 2}
Events == {1, NULL}
IsoTimes == {"none", "2025-08-16T14:00:00Z", "not-a-date"}
\* a kickoff a constructed store holds that no upstream string parses to
StoredInstants == {2}
StatKeys == {"1", "2"}
Points == {2, 5}

Collections == {"teams", "players", "fixtures", "stats"}

VARIABLES
    teams,       \* table teams: rows [id, code, name]
    players,     \* table players: rows [id, element_type, team_id, now_cost]
    fixtures,    \* table fixtures: rows [id, code, event, finished, started,
                 \* team_h_id, team_a_id, team_h_score, team_a_score,
                 \* team_h_difficulty, team_a_difficulty, kickoff_time]
    gwstats,     \* table player_gameweek_stats: rows [id, player_id, gameweek, total_points]
    last_sync,   \* DataSyncService.last_sync (NULL = None)
    now,         \* datetime.now(), in hours
    pc,          \* position of the running sync_all_data call
    force,       \* its argument
    current_gw,  \* its local current_gw
    ret,         \* what each sync_<collection> of this call returned
    result,      \* what sync_all_data returned ("none" while running)
    skipped,     \* the call returned at line 31 without fetching
    upstream,    \* what the FPL API serves
    autoflush,   \* SessionLocal's autoflush setting
    flaky,       \* requests to the FPL API can fail (_make_request returns None)
    prev         \* the store as the previous call left it, when that call
                 \* was forced and all four collection syncs returned True

store == <<teams, players, fixtures, gwstats>>
sync_vars == <<teams, players, fixtures, gwstats, last_sync, now, pc, force,
               current_gw, ret, result, skipped, upstream, autoflush, flaky, prev>>

VARIABLES
    runs,        \* two sync runs in two worker processes: for each its
                 \* position in the collection sync and its session
    syncing,     \* the collection those two runs are syncing
    fdr,         \* a fixture-difficulty or current-gameweek request and its answer
    advice,      \* a call of the transfer advisor and what it returned
    http,        \* the shared FPL API client and the coroutines inside async with fpl_api
    limiter,     \* RateLimitMiddleware: its counters, the clock and the requests in the handler
    oracle,      \* what the LLM did for the squad recommendation in progress
    ranks,       \* the orders in which the three ranking operations put one pool
    build        \* a call of the squad builder and what it returned

\* the variables of the other services, which a sync leaves alone
elsewhere == <<runs, syncing, fdr, build, advice, http, limiter, oracle, ranks>>

\* the values these have while their service is not in use
NoRuns == [r \in {1, 2} |-> [pc |-> "off"]]
NoRequest == [op |-> "none"]
NoBuild == [op |-> "none"]

OverlapIdle == runs = NoRuns /\ syncing = "none"
RequestIdle == fdr = NoRequest
BuilderIdle == build = NoBuild
NoRanks == [op |-> "none"]
RanksIdle == ranks = NoRanks
NoOracle == "none"
OracleIdle == oracle = NoOracle
NoLimiter == [request_counts |-> << >>, last_reset |-> 0, time |-> 0, handling |-> << >>, arrived |-> 0, admitted |-> << >>, last |-> [kind |-> "none"]]
LimiterIdle == limiter = NoLimiter
NoClient == [session |-> NULL, closed |-> {}, made |-> 0, co |-> << >>]
ClientIdle == http = NoClient
NoAdvice == [op |-> "none"]
AdviceIdle == advice = NoAdvice

vars == <<sync_vars, elsewhere>>

---------------------------------------------------------------------------
\* Upstream records (the fields the service reads).

TeamRecs == [id : TeamIds, code : TeamCodes, name : TeamNames]
PlayerRecs == [id : PlayerIds, element_type : ElementTypes, team : TeamIds,
               now_cost : Costs]
\* upstream fixtures: id and code agree, the two teams differ; these are
\* fixtures not yet played
FixtureRecs == {f \in [id : FixtureCodes, code : FixtureCodes, event : Events,
                       team_h : TeamIds, team_a : TeamIds, kickoff_time : IsoTimes,
                       finished : {FALSE}, started : {FALSE},
                       team_h_score : {NULL}, team_a_score : {NULL},
                       team_h_difficulty : {3}, team_a_difficulty : {3}] :
                  f.id = f.code /\ f.team_h # f.team_a}
StatRecs == [key : StatKeys, total_points : Points]
EventRecs == [id : {1, NULL}, is_current : BOOLEAN]

SeqsUpTo(S, n) == UNION {[1..k -> S] : k \in 0..n}

\* the natural keys of the source records
IdOf(d) == d.id
CodeOf(d) == d.code
KeyOf(d) == d.key

---------------------------------------------------------------------------
\* The SQLAlchemy session of one collection sync (db = SessionLocal()):
\* rows is the table as the session sees it, new the rows added with
\* db.add() and not yet committed, ok turns FALSE when a statement of the
\* session is rejected by the database.

OpenSession(table) == [rows |-> table, new |-> {}, ok |-> TRUE]

\* The rows a db.query(...) of the session can return: with autoflush the
\* pending rows are flushed before the query runs, without it they are not
\* in the database yet.  SessionLocal is made in app/db/database.py, which
\* is not among the sources, so both settings are explored.
Visible(sess) == IF autoflush THEN sess.rows ELSE sess.rows \ sess.new

\* An attribute assignment on a row the session holds.
Replace(sess, old, upd) ==
    [sess EXCEPT !.rows = (sess.rows \ {old}) \cup {upd},
                 !.new = IF old \in sess.new THEN (sess.new \ {old}) \cup {upd}
                         ELSE sess.new]

\* db.add(row); unique says whether the INSERT passes the table's primary
\* key and unique constraints.
Add(sess, row, unique) ==
    [rows |-> sess.rows \cup {row}, new |-> sess.new \cup {row},
     ok |-> sess.ok /\ unique]

\* With autoflush the statements issued so far reach the database before the
\* next query, so a row that violates a constraint is rejected there; without
\* it they are checked at db.commit().
Flush(sess, valid) ==
    IF autoflush THEN [sess EXCEPT !.ok = sess.ok /\ valid] ELSE sess

\* a session that keeps what it wrote before the statement that failed
Commit_Partial(table, sess, valid) == sess.rows

\* db.commit() at the end of the loop, db.close() in the finally clause: a
\* session that failed leaves the table as it was.
Commit(table, sess, valid) == IF sess.ok /\ valid THEN sess.rows ELSE table

---------------------------------------------------------------------------
\* teams

TeamsValid(rows) ==
    \A a, b \in rows : (a.id = b.id \/ a.code = b.code) => a = b

CreateTeam(d) == [id |-> d.id, code |-> d.code, name |-> d.name]

UpdateTeam(t, d) == [t EXCEPT !.name = d.name]

UpsertTeam(sess, d) ==
    LET existing_team == {t \in Visible(sess) : t.code = d.code}
    IN  IF existing_team # {}
        THEN LET t == CHOOSE x \in existing_team : TRUE
             IN  Replace(sess, t, UpdateTeam(t, d))
        ELSE LET n == CreateTeam(d)
             IN  Add(sess, n, \A t \in sess.rows : t.id # n.id /\ t.code # n.code)

RECURSIVE TeamsLoop(_, _, _)
TeamsLoop(sess, teams_data, i) ==
    IF i > Len(teams_data) \/ ~sess.ok THEN sess
    ELSE TeamsLoop(Flush(UpsertTeam(sess, teams_data[i]), TRUE), teams_data, i + 1)

\* api.get_teams_data(): None when the bootstrap request failed
GetTeamsData(up) ==
    IF up THEN [none |-> FALSE, items |-> upstream.teams]
    ELSE [none |-> TRUE, items |-> << >>]

\* sync_teams: the table it leaves and the value it returns
SyncTeamsOutcome(teams_data) ==
    IF teams_data.none \/ teams_data.items = << >>
    THEN [rows |-> teams, ok |-> FALSE]
    ELSE LET sess == TeamsLoop(OpenSession(teams), teams_data.items, 1)
             valid == TeamsValid(sess.rows)
         IN  [rows |-> Commit(teams, sess, valid), ok |-> sess.ok /\ valid]

---------------------------------------------------------------------------
\* players

PlayersValid(rows) ==
    /\ \A a, b \in rows : a.id = b.id => a = b
    /\ \A p \in rows : \E t \in teams : t.id = p.team_id

CreatePlayer(d) ==
    [id |-> d.id, element_type |-> d.element_type, team_id |-> d.team,
     now_cost |-> d.now_cost]

UpdatePlayer(p, d) == [p EXCEPT !.team_id = d.team, !.now_cost = d.now_cost]

UpsertPlayer(sess, d) ==
    LET existing_player == {p \in Visible(sess) : p.id = d.id}
    IN  IF existing_player # {}
        THEN LET p == CHOOSE x \in existing_player : TRUE
             IN  Replace(sess, p, UpdatePlayer(p, d))
        ELSE LET n == CreatePlayer(d)
             IN  Add(sess, n, \A p \in sess.rows : p.id # n.id)

RECURSIVE PlayersLoop(_, _, _)
PlayersLoop(sess, players_data, i) ==
    IF i > Len(players_data) \/ ~sess.ok THEN sess
    ELSE LET next == UpsertPlayer(sess, players_data[i])
         IN  PlayersLoop(Flush(next, PlayersValid(next.rows)), players_data, i + 1)

GetPlayersData(up) ==
    IF up THEN [none |-> FALSE, items |-> upstream.players]
    ELSE [none |-> TRUE, items |-> << >>]

SyncPlayersOutcome(players_data) ==
    IF players_data.none \/ players_data.items = << >>
    THEN [rows |-> players, ok |-> FALSE]
    ELSE LET sess == PlayersLoop(OpenSession(players), players_data.items, 1)
             valid == PlayersValid(sess.rows)
         IN  [rows |-> Commit(players, sess, valid), ok |-> sess.ok /\ valid]

---------------------------------------------------------------------------
\* fixtures

\* datetime.fromisoformat(s.replace('Z', '+00:00')): the instant, or NULL
\* when the string does not parse (the except: pass)
FromIsoFormat(s) ==
    CASE s = "2025-08-16T14:00:00Z" -> 1
      [] OTHER -> NULL

FixturesValid(rows) ==
    /\ \A a, b \in rows : (a.id = b.id \/ a.code = b.code) => a = b
    /\ \A f \in rows : /\ f.event # NULL
                       /\ \E t \in teams : t.id = f.team_h_id
                       /\ \E t \in teams : t.id = f.team_a_id

CreateFixture(d) ==
    [id |-> d.id, code |-> d.code, event |-> d.event,
     finished |-> d.finished, started |-> d.started,
     team_h_id |-> d.team_h, team_a_id |-> d.team_a,
     team_h_score |-> d.team_h_score, team_a_score |-> d.team_a_score,
     team_h_difficulty |-> d.team_h_difficulty,
     team_a_difficulty |-> d.team_a_difficulty,
     kickoff_time |-> IF d.kickoff_time # "none"
                      THEN FromIsoFormat(d.kickoff_time) ELSE NULL]

UpdateFixture(f, d) ==
    [f EXCEPT !.event = d.event,
              !.finished = d.finished,
              !.started = d.started,
              !.team_h_score = d.team_h_score,
              !.team_a_score = d.team_a_score,
              !.team_h_difficulty = d.team_h_difficulty,
              !.team_a_difficulty = d.team_a_difficulty,
              !.kickoff_time =
                  IF d.kickoff_time # "none" /\ FromIsoFormat(d.kickoff_time) # NULL
                  THEN FromIsoFormat(d.kickoff_time) ELSE @]

UpsertFixture(sess, d) ==
    LET existing_fixture == {f \in Visible(sess) : f.code = d.code}
    IN  IF existing_fixture # {}
        THEN LET f == CHOOSE x \in existing_fixture : TRUE
             IN  Replace(sess, f, UpdateFixture(f, d))
        ELSE LET n == CreateFixture(d)
             IN  Add(sess, n, \A f \in sess.rows : f.id # n.id /\ f.code # n.code)

RECURSIVE FixturesLoop(_, _, _)
FixturesLoop(sess, fixtures_data, i) ==
    IF i > Len(fixtures_data) \/ ~sess.ok THEN sess
    ELSE LET next == UpsertFixture(sess, fixtures_data[i])
         IN  FixturesLoop(Flush(next, FixturesValid(next.rows)), fixtures_data, i + 1)

GetFixtures(up) ==
    IF up THEN [none |-> FALSE, items |-> upstream.fixtures]
    ELSE [none |-> TRUE, items |-> << >>]

SyncFixturesOutcome(fixtures_data) ==
    IF fixtures_data.none \/ fixtures_data.items = << >>
    THEN [rows |-> fixtures, ok |-> FALSE]
    ELSE LET sess == FixturesLoop(OpenSession(fixtures), fixtures_data.items, 1)
             valid == FixturesValid(sess.rows)
         IN  [rows |-> Commit(fixtures, sess, valid), ok |-> sess.ok /\ valid]

---------------------------------------------------------------------------
\* gameweek stats

\* int(player_id) on a key of live_data['elements']
KeyToInt(key) ==
    CASE key = "1" -> 1
      [] key = "2" -> 2

\* the autoincrement primary key of player_gameweek_stats
NextStatsId(rows) ==
    IF rows = {} THEN 1
    ELSE 1 + (CHOOSE m \in {r.id : r \in rows} : \A r \in rows : r.id <= m)

StatsValid(rows) ==
    /\ \A a, b \in rows : a.id = b.id => a = b
    /\ \A s \in rows : \E p \in players : p.id = s.player_id

CreateStats(id, player_id, gameweek, d) ==
    [id |-> id, player_id |-> player_id, gameweek |-> gameweek,
     total_points |-> d.total_points]

\* a slip that adds the gameweek's points to the stored ones
UpdateStats_Accumulate(s, d) ==
    [s EXCEPT !.total_points = @ + d.total_points]

UpdateStats(s, d) == [s EXCEPT !.total_points = d.total_points]

\* a lookup that never finds the stored row
FindStats_Missing(rows, player_id, gameweek) == {}

FindStats(rows, player_id, gameweek) ==
    {s \in rows : s.player_id = player_id /\ s.gameweek = gameweek}

UpsertStats(sess, gameweek, d) ==
    LET player_id == KeyToInt(d.key)
        existing_stats == FindStats(Visible(sess), player_id, gameweek)
    IN  IF existing_stats # {}
        THEN LET s == CHOOSE x \in existing_stats : TRUE
             IN  Replace(sess, s, UpdateStats(s, d))
        ELSE Add(sess, CreateStats(NextStatsId(sess.rows), player_id, gameweek, d), TRUE)

RECURSIVE StatsLoop(_, _, _, _)
StatsLoop(sess, gameweek, elements, i) ==
    IF i > Len(elements) \/ ~sess.ok THEN sess
    ELSE LET next == UpsertStats(sess, gameweek, elements[i])
         IN  StatsLoop(Flush(next, StatsValid(next.rows)), gameweek, elements, i + 1)

\* api.get_gameweek_live_data(gw): None when the request failed
GetGameweekLiveData(up) ==
    IF up THEN upstream.live
    ELSE [shape |-> "none", elements |-> << >>]

\* sync_gameweek_stats: a response without 'elements' returns False, one
\* whose 'elements' is a list raises at .items(), an empty mapping commits
\* nothing and returns True
SyncStatsOutcome(live_data, gameweek) ==
    IF live_data.shape # "dict"
    THEN [rows |-> gwstats, ok |-> FALSE]
    ELSE LET sess == StatsLoop(OpenSession(gwstats), gameweek, live_data.elements, 1)
             valid == StatsValid(sess.rows)
         IN  [rows |-> Commit(gwstats, sess, valid), ok |-> sess.ok /\ valid]

\* api.get_current_gameweek(): the id of the first event with is_current,
\* None when there is none or the bootstrap request failed; event['id']
\* raises KeyError when that event carries no id
RECURSIVE FirstCurrent(_, _)
FirstCurrent(events, i) ==
    IF i > Len(events) THEN [raised |-> FALSE, gw |-> NULL]
    ELSE IF events[i].is_current
         THEN [raised |-> events[i].id = NULL, gw |-> events[i].id]
         ELSE FirstCurrent(events, i + 1)

GetCurrentGameweek(up) ==
    IF up THEN FirstCurrent(upstream.events, 1)
    ELSE [raised |-> FALSE, gw |-> NULL]

---------------------------------------------------------------------------
\* sync_all_data

\* a comparison that still skips when exactly the interval has passed
IsFresh_Inclusive(f) ==
    /\ ~f
    /\ last_sync # NULL
    /\ now - last_sync <= DATA_REFRESH_INTERVAL_HOURS

\* line 27-29: the last sync is recent enough to skip this one
IsFresh(f) ==
    /\ ~f
    /\ last_sync # NULL
    /\ now - last_sync < DATA_REFRESH_INTERVAL_HOURS

\* players synced before teams
AfterStep_PlayersFirst(step, ok) ==
    CASE step = "enter" -> "players"
      [] step = "players" -> "teams"
      [] step = "teams" -> "fixtures"
      [] step = "fixtures" -> "gameweek"

\* a failed collection sync ends the call
AfterStep_AbortOnFailure(step, ok) ==
    IF ~ok THEN "done"
    ELSE CASE step = "enter" -> "teams"
           [] step = "teams" -> "players"
           [] step = "players" -> "fixtures"
           [] step = "fixtures" -> "gameweek"

\* the statement sync_all_data runs after a collection sync has returned
\* ok; the returned value is not looked at
AfterStep(step, ok) ==
    CASE step = "enter" -> "teams"
      [] step = "teams" -> "players"
      [] step = "players" -> "fixtures"
      [] step = "fixtures" -> "gameweek"

\* what a request to the FPL API can come back with: data (TRUE), or None
\* after an HTTP error (FALSE)
Responses == IF flaky THEN BOOLEAN ELSE {TRUE}

NotCalled == [c \in Collections |-> "not called"]
Returned(ok) == IF ok THEN "True" ELSE "False"
AllTrue(r) == \A c \in Collections : r[c] = "True"
NoPrev == [valid |-> FALSE, store |-> << >>]

StartSync(f) ==
    /\ pc = "idle"
    /\ force' = f
    /\ ret' = NotCalled
    /\ current_gw' = NULL
    /\ IF IsFresh(f)
       THEN pc' = "done" /\ result' = "True" /\ skipped' = TRUE
       ELSE pc' = AfterStep("enter", TRUE) /\ result' = "none" /\ skipped' = FALSE
    /\ UNCHANGED <<store, last_sync, now, upstream, autoflush, flaky, prev, elsewhere>>

SyncTeams ==
    /\ pc = "teams"
    /\ \E up \in Responses :
         LET out == SyncTeamsOutcome(GetTeamsData(up))
         IN  /\ teams' = out.rows
             /\ ret' = [ret EXCEPT !["teams"] = Returned(out.ok)]
             /\ pc' = AfterStep("teams", out.ok)
    /\ UNCHANGED <<players, fixtures, gwstats, last_sync, now, force, current_gw,
                   result, skipped, upstream, autoflush, flaky, prev, elsewhere>>

SyncPlayers ==
    /\ pc = "players"
    /\ \E up \in Responses :
         LET out == SyncPlayersOutcome(GetPlayersData(up))
         IN  /\ players' = out.rows
             /\ ret' = [ret EXCEPT !["players"] = Returned(out.ok)]
             /\ pc' = AfterStep("players", out.ok)
    /\ UNCHANGED <<teams, fixtures, gwstats, last_sync, now, force, current_gw,
                   result, skipped, upstream, autoflush, flaky, prev, elsewhere>>

SyncFixtures ==
    /\ pc = "fixtures"
    /\ \E up \in Responses :
         LET out == SyncFixturesOutcome(GetFixtures(up))
         IN  /\ fixtures' = out.rows
             /\ ret' = [ret EXCEPT !["fixtures"] = Returned(out.ok)]
             /\ pc' = AfterStep("fixtures", out.ok)
    /\ UNCHANGED <<teams, players, gwstats, last_sync, now, force, current_gw,
                   result, skipped, upstream, autoflush, flaky, prev, elsewhere>>

\* line 44-50 when there is no current gameweek, line 52-54 when the lookup
\* raises
CurrentGameweek ==
    /\ pc = "gameweek"
    /\ \E up \in Responses :
         LET cur == GetCurrentGameweek(up)
         IN  IF cur.raised
             THEN /\ pc' = "done" /\ result' = "False"
                  /\ UNCHANGED <<current_gw, last_sync>>
             ELSE IF cur.gw = NULL
             THEN /\ pc' = "done" /\ result' = "True"
                  /\ last_sync' = now
                  /\ UNCHANGED current_gw
             ELSE /\ pc' = "stats" /\ current_gw' = cur.gw
                  /\ UNCHANGED <<result, last_sync>>
    /\ UNCHANGED <<store, now, force, ret, skipped, upstream, autoflush, flaky, prev, elsewhere>>

\* line 46-50
SyncGameweekStats ==
    /\ pc = "stats"
    /\ \E up \in Responses :
         LET out == SyncStatsOutcome(GetGameweekLiveData(up), current_gw)
         IN  /\ gwstats' = out.rows
             /\ ret' = [ret EXCEPT !["stats"] = Returned(out.ok)]
    /\ last_sync' = now
    /\ result' = "True"
    /\ pc' = "done"
    /\ UNCHANGED <<teams, players, fixtures, now, force, current_gw, skipped,
                   upstream, autoflush, flaky, prev, elsewhere>>

\* the caller has the returned value; the service is idle again
Return ==
    /\ pc = "done"
    /\ pc' = "idle"
    /\ prev' = IF force /\ ~skipped /\ AllTrue(ret)
               THEN [valid |-> TRUE, store |-> store] ELSE NoPrev
    /\ result' = "none"
    /\ ret' = NotCalled
    /\ skipped' = FALSE
    /\ current_gw' = NULL
    /\ force' = FALSE
    /\ UNCHANGED <<store, last_sync, now, upstream, autoflush, flaky, elsewhere>>

\* an hour passes, between calls or while a call awaits the upstream
Tick ==
    /\ now + 1 <= MaxClock
    /\ now' = now + 1
    /\ UNCHANGED <<store, last_sync, pc, force, current_gw, ret, result, skipped,
                   upstream, autoflush, flaky, prev, elsewhere>>

Next ==
    \/ \E f \in BOOLEAN : StartSync(f)
    \/ SyncTeams
    \/ SyncPlayers
    \/ SyncFixtures
    \/ CurrentGameweek
    \/ SyncGameweekStats
    \/ Return
    \/ Tick

---------------------------------------------------------------------------
\* The states the service can be constructed in.  DataSyncService() sets
\* last_sync = None; the store is what earlier processes left in it, any rows
\* the schema admits.

TeamRows == [id : TeamIds, code : TeamCodes, name : TeamNames]
PlayerRows == [id : PlayerIds, element_type : ElementTypes, team_id : TeamIds,
               now_cost : Costs]
FixtureRows == {f \in [id : FixtureCodes, code : FixtureCodes, event : Events \ {NULL},
                       team_h_id : TeamIds, team_a_id : TeamIds,
                       kickoff_time : StoredInstants \cup {NULL},
                       finished : {FALSE}, started : {FALSE},
                       team_h_score : {NULL}, team_a_score : {NULL},
                       team_h_difficulty : {3}, team_a_difficulty : {3}] :
                  f.id = f.code /\ f.team_h_id # f.team_a_id}
StatsRows == [id : {1}, player_id : PlayerIds, gameweek : {1}, total_points : Points]

TablesOf(Rows) == {T \in SUBSET Rows : Cardinality(T) <= MaxRows}

SeedTeams == {[id |-> 1, code |-> 1, name |-> "Arsenal"],
              [id |-> 2, code |-> 2, name |-> "Chelsea"]}
SeedPlayers == {[id |-> 1, element_type |-> 1, team_id |-> 1, now_cost |-> 50],
                [id |-> 2, element_type |-> 2, team_id |-> 2, now_cost |-> 50]}
SeedFixtures == {[id |-> 1, code |-> 1, event |-> 1, team_h_id |-> 1,
                  team_a_id |-> 2, kickoff_time |-> 2,
                  finished |-> FALSE, started |-> FALSE,
                  team_h_score |-> NULL, team_a_score |-> NULL,
                  team_h_difficulty |-> 3, team_a_difficulty |-> 3]}
SeedStats == {[id |-> 1, player_id |-> 1, gameweek |-> 1, total_points |-> 2]}

BaseTeams == <<[id |-> 1, code |-> 1, name |-> "Arsenal"],
               [id |-> 2, code |-> 2, name |-> "Chelsea"]>>
BasePlayers == <<[id |-> 1, element_type |-> 1, team |-> 2, now_cost |-> 50],
                 [id |-> 2, element_type |-> 1, team |-> 2, now_cost |-> 50]>>
BaseFixtures == <<[id |-> 1, code |-> 1, event |-> 1, team_h |-> 1, team_a |-> 2,
                   kickoff_time |-> "2025-08-16T14:00:00Z",
                   finished |-> FALSE, started |-> FALSE,
                   team_h_score |-> NULL, team_a_score |-> NULL,
                   team_h_difficulty |-> 3, team_a_difficulty |-> 3]>>
BaseEvents == <<[id |-> 1, is_current |-> TRUE]>>
BaseLive == [shape |-> "dict", elements |-> <<[key |-> "1", total_points |-> 5]>>]

Range(seq) == {seq[i] : i \in 1..Len(seq)}

\* The upstream lists of at most MaxBatch records in which at most one
\* record is not a plain one.
Batches(Recs, Plain) ==
    {b \in SeqsUpTo(Recs, MaxBatch) :
        Cardinality({i \in 1..Len(b) : b[i] \notin Plain}) <= 1}

PlainTeams == Range(BaseTeams)
PlainPlayers == {p \in PlayerRecs : p.element_type = 1 /\ p.team = 2}
PlainFixtures == {f \in FixtureRecs : /\ f.event = 1
                                      /\ f.team_h = 1
                                      /\ f.kickoff_time = "2025-08-16T14:00:00Z"}
PlainStats == {s \in StatRecs : s.total_points = 5}
PlainEvents == {e \in EventRecs : e.id = 1 /\ ~e.is_current}

\* the keys of a JSON object are distinct
LiveResponses ==
    {[shape |-> "no elements", elements |-> << >>],
     [shape |-> "list", elements |-> << >>]}
    \cup {[shape |-> "dict", elements |-> e] :
            e \in {x \in Batches(StatRecs, PlainStats) :
                     \A i, j \in 1..Len(x) : x[i].key = x[j].key => i = j}}

Focuses == {"teams", "players", "fixtures", "events", "stats"}

Pick(focus, c, rich, base) == IF focus = c THEN rich ELSE {base}

Constructed ==
    /\ last_sync = NULL
    /\ now = 0
    /\ pc = "idle"
    /\ force = FALSE
    /\ current_gw = NULL
    /\ ret = NotCalled
    /\ result = "none"
    /\ skipped = FALSE
    /\ prev = NoPrev
    /\ RequestIdle
    /\ BuilderIdle
    /\ AdviceIdle
    /\ ClientIdle
    /\ LimiterIdle
    /\ OracleIdle
    /\ RanksIdle

\* The store is empty or holds the seed rows, the upstream serves the base
\* lists.
Init ==
    /\ autoflush \in BOOLEAN
    /\ flaky = TRUE
    /\ \E seeded \in BOOLEAN :
         /\ teams = IF seeded THEN SeedTeams ELSE {}
         /\ players = IF seeded THEN SeedPlayers ELSE {}
         /\ fixtures = IF seeded THEN SeedFixtures ELSE {}
         /\ gwstats = IF seeded THEN SeedStats ELSE {}
    /\ upstream = [teams |-> BaseTeams, players |-> BasePlayers,
                   fixtures |-> BaseFixtures, events |-> BaseEvents,
                   live |-> BaseLive]
    /\ Constructed
    /\ OverlapIdle

\* One collection at a time is explored in full: its table and what the
\* upstream serves for it range over everything the bounds allow, while the
\* other tables hold the seed rows, or nothing, and are served the base
\* lists.
InitData ==
    /\ autoflush \in BOOLEAN
    /\ flaky = TRUE
    /\ \E focus \in Focuses, seeded \in BOOLEAN :
         /\ teams \in {T \in Pick(focus, "teams", TablesOf(TeamRows),
                                  IF seeded THEN SeedTeams ELSE {}) : TeamsValid(T)}
         /\ players \in {T \in Pick(focus, "players", TablesOf(PlayerRows),
                                    IF seeded THEN SeedPlayers ELSE {}) : PlayersValid(T)}
         /\ fixtures \in {T \in Pick(focus, "fixtures", TablesOf(FixtureRows),
                                     IF seeded THEN SeedFixtures ELSE {}) : FixturesValid(T)}
         /\ gwstats \in {T \in Pick(focus, "stats", TablesOf(StatsRows),
                                    IF seeded THEN SeedStats ELSE {}) : StatsValid(T)}
         /\ upstream \in
              [teams : Pick(focus, "teams", Batches(TeamRecs, PlainTeams), BaseTeams),
               players : Pick(focus, "players", Batches(PlayerRecs, PlainPlayers),
                              BasePlayers),
               fixtures : Pick(focus, "fixtures", Batches(FixtureRecs, PlainFixtures),
                               BaseFixtures),
               events : Pick(focus, "events", Batches(EventRecs, PlainEvents), BaseEvents),
               live : Pick(focus, "stats", LiveResponses, BaseLive)]
    /\ Constructed
    /\ OverlapIdle

\* every call of the service, with time passing between calls
Spec == Init /\ [][Next]_vars

\* forced calls over every store and upstream of InitData
NextForced ==
    \/ StartSync(TRUE)
    \/ SyncTeams
    \/ SyncPlayers
    \/ SyncFixtures
    \/ CurrentGameweek
    \/ SyncGameweekStats
    \/ Return

SpecData == InitData /\ [][NextForced]_vars

\* Upstream records that break an entity rule: a player with a negative
\* price, a fixture under way or finished with or without its scores.
AnyCosts == Costs \cup {-5}
PricedPlayerRecs == [id : PlayerIds, element_type : {1}, team : TeamIds,
                     now_cost : AnyCosts]
PlayedFixtureRecs ==
    {f \in [id : FixtureCodes, code : FixtureCodes, event : Events,
            team_h : TeamIds, team_a : TeamIds,
            kickoff_time : {"2025-08-16T14:00:00Z"},
            finished : BOOLEAN, started : {TRUE},
            team_h_score : {NULL, 1}, team_a_score : {NULL, 1},
            team_h_difficulty : {3}, team_a_difficulty : {3}] :
       f.id = f.code /\ f.team_h # f.team_a}

\* The FPL API answers every request; the players list or the fixtures list
\* holds at most one record that is not a plain one, and the teams list may
\* lack the second team.
InitBatch ==
    /\ autoflush \in BOOLEAN
    /\ flaky = FALSE
    /\ \E focus \in {"players", "fixtures"}, seeded \in BOOLEAN :
         /\ teams = IF seeded THEN SeedTeams ELSE {}
         /\ players = IF seeded THEN SeedPlayers ELSE {}
         /\ fixtures = IF seeded THEN SeedFixtures ELSE {}
         /\ gwstats = IF seeded THEN SeedStats ELSE {}
         /\ upstream \in
              [teams : {BaseTeams, SubSeq(BaseTeams, 1, 1)},
               players : Pick(focus, "players",
                              Batches(PricedPlayerRecs, PlainPlayers), BasePlayers),
               fixtures : Pick(focus, "fixtures",
                               Batches(FixtureRecs \cup PlayedFixtureRecs, PlainFixtures),
                               BaseFixtures),
               events : {BaseEvents},
               live : {BaseLive}]
    /\ Constructed
    /\ OverlapIdle

\* forced calls against an upstream that answers, over the lists of InitBatch
SpecBatch == InitBatch /\ [][NextForced]_vars

---------------------------------------------------------------------------
\* Two sync runs at once.  start_app.py starts the backend with four worker
\* processes in production; each has its own DataSyncService and runs
\* sync_all_data when POST /admin/sync-data reaches it, so two runs can be
\* inside the same collection sync together.  Each has its own session, that
\* is its own transaction on the shared database: a query sees the rows
\* committed so far, a row added with db.add() reaches the table at
\* db.commit().  A step is one iteration of the loop (the query and the
\* update or db.add that follows it), or the commit.  Both runs were served
\* the same list, whose keys are distinct.

RunIds == {1, 2}

\* the gameweek get_current_gameweek returned to both runs
OverlapGameweek == BaseEvents[1].id

OverlapList == IF syncing = "players" THEN upstream.players
               ELSE upstream.live.elements

\* db = SessionLocal() after the fetch: upd holds the assignments made to
\* rows the queries found (row id, source record), new the source records
\* whose rows were added
OpenRun == [pc |-> "loop", i |-> 1, upd |-> << >>, new |-> << >>, ret |-> "none"]

\* lines 123-133 (players), 193-210 (stats): one iteration
OverlapUpsert(r) ==
    LET run == runs[r]
        d == OverlapList[run.i]
        existing == IF syncing = "players"
                    THEN {p \in players : p.id = d.id}
                    ELSE FindStats(gwstats, KeyToInt(d.key), OverlapGameweek)
    IN  /\ run.pc = "loop"
        /\ run.i <= Len(OverlapList)
        /\ IF existing # {}
           THEN \E x \in existing :
                  runs' = [runs EXCEPT ![r] =
                             [run EXCEPT !.upd = Append(@, <<x.id, d>>), !.i = @ + 1]]
           ELSE runs' = [runs EXCEPT ![r] =
                           [run EXCEPT !.new = Append(@, d), !.i = @ + 1]]
        /\ UNCHANGED <<sync_vars, syncing, fdr, build, advice, http, limiter, oracle, ranks>>

\* the row after the run's assignments to it
Assigned(row, upd, Update(_, _)) ==
    IF \E k \in 1..Len(upd) : upd[k][1] = row.id
    THEN Update(row, upd[CHOOSE k \in 1..Len(upd) : upd[k][1] = row.id][2])
    ELSE row

\* db.commit(): the UPDATEs and INSERTs of the session reach the table.  An
\* INSERT of a players row whose id another transaction has committed
\* meanwhile violates the primary key: the commit raises, the sync returns
\* False and nothing of the session is kept.  player_gameweek_stats has only
\* its generated id as a key, so its INSERTs always pass.
OverlapCommit(r) ==
    LET run == runs[r]
        inserted == {CreatePlayer(run.new[k]) : k \in 1..Len(run.new)}
        ok == \A n \in inserted : \A p \in players : p.id # n.id
    IN  /\ run.pc = "loop"
        /\ run.i > Len(OverlapList)
        /\ IF syncing = "players"
           THEN /\ players' = IF ok
                               THEN {Assigned(p, run.upd, UpdatePlayer) : p \in players}
                                    \cup inserted
                               ELSE players
                /\ runs' = [runs EXCEPT ![r] =
                              [run EXCEPT !.pc = "done", !.ret = Returned(ok)]]
                /\ UNCHANGED gwstats
           ELSE /\ gwstats' = {Assigned(g, run.upd, UpdateStats) : g \in gwstats}
                               \cup {CreateStats(NextStatsId(gwstats) + k - 1,
                                                 KeyToInt(run.new[k].key),
                                                 OverlapGameweek, run.new[k]) :
                                       k \in 1..Len(run.new)}
                /\ runs' = [runs EXCEPT ![r] =
                              [run EXCEPT !.pc = "done", !.ret = "True"]]
                /\ UNCHANGED players
        /\ UNCHANGED <<teams, fixtures, last_sync, now, pc, force, current_gw, ret,
                       result, skipped, upstream, autoflush, flaky, prev,
                       syncing, fdr, build, advice, http, limiter, oracle, ranks>>

NextOverlap ==
    \E r \in RunIds : OverlapUpsert(r) \/ OverlapCommit(r)

\* lists of distinct keys
DistinctBy(list, Key(_)) ==
    \A i, j \in 1..Len(list) : Key(list[i]) = Key(list[j]) => i = j

\* Both runs have fetched and are about to open their session.  The teams
\* are stored; the table under sync holds none, one or all of the seed rows.
InitOverlap ==
    /\ autoflush = FALSE
    /\ flaky = FALSE
    /\ syncing \in {"players", "stats"}
    /\ teams = SeedTeams
    /\ fixtures = SeedFixtures
    /\ players \in IF syncing = "players" THEN SUBSET SeedPlayers ELSE {SeedPlayers}
    /\ gwstats \in IF syncing = "stats" THEN SUBSET SeedStats ELSE {{}}
    /\ upstream \in
         [teams : {BaseTeams},
          players : IF syncing = "players"
                    THEN {b \in Batches(PlayerRecs, PlainPlayers) :
                            b # << >> /\ DistinctBy(b, IdOf)}
                    ELSE {BasePlayers},
          fixtures : {BaseFixtures},
          events : {BaseEvents},
          live : IF syncing = "stats"
                 THEN {l \in LiveResponses : l.shape = "dict" /\ l.elements # << >>}
                 ELSE {BaseLive}]
    /\ runs = [r \in RunIds |-> OpenRun]
    /\ Constructed

SpecOverlap == InitOverlap /\ [][NextOverlap]_vars

---------------------------------------------------------------------------
\* Fixture difficulty and current gameweek: TeamService and FixtureService
\* (team_service.py, fixture_service.py) and GET /admin/database-stats
\* (admin.py), all reading the fixtures table.  An average is held in
\* hundredths: 3.0 is 300, round(x, 2) is an integer.

\* most fixtures the table holds
MaxFixtures == 3
\* gameweeks run from 1 to MaxGameweek
MaxGameweek == 2
\* largest next_gameweeks asked for
MaxHorizon == 2

Min(a, b) == IF a <= b THEN a ELSE b

\* a rounding that drops the digits after the second decimal
Round2_Truncate(num, den) == (100 * num) \div den

\* round(num / den, 2) in hundredths, halves to the even neighbour
Round2(num, den) ==
    LET q == (100 * num) \div den
        r == (100 * num) % den
    IN  IF 2 * r > den \/ (2 * r = den /\ q % 2 = 1) THEN q + 1 ELSE q

\* the rows of a set in any order ORDER BY event ASC can return them
EventOrdered(S) ==
    {q \in [1..Cardinality(S) -> S] :
        /\ \A i, j \in 1..Cardinality(S) : q[i] = q[j] => i = j
        /\ \A i, j \in 1..Cardinality(S) : i < j => q[i].event <= q[j].event}

\* the dict built for one fixture of a team: the team's own side decides
\* is_home, the opponent and the difficulty
FixtureInfo(f, team_id) ==
    LET is_home == f.team_h_id = team_id
    IN  [fixture_id |-> f.id,
         gameweek |-> f.event,
         opponent_id |-> IF is_home THEN f.team_a_id ELSE f.team_h_id,
         is_home |-> is_home,
         difficulty |-> IF is_home THEN f.team_h_difficulty ELSE f.team_a_difficulty]

InfoList(q, team_id) == [i \in 1..Len(q) |-> FixtureInfo(q[i], team_id)]

RECURSIVE SumDifficulty(_, _)
SumDifficulty(infos, i) ==
    IF i > Len(infos) THEN 0 ELSE infos[i].difficulty + SumDifficulty(infos, i + 1)

\* TeamService.get_team_fixtures: the team's unfinished fixtures by event,
\* the first next_gameweeks of them
GetTeamFixtures(team_id, next_gameweeks) ==
    LET rows == {f \in fixtures : /\ (f.team_h_id = team_id \/ f.team_a_id = team_id)
                                  /\ ~f.finished}
    IN  {InfoList(SubSeq(q, 1, Min(next_gameweeks, Len(q))), team_id) :
           q \in EventOrdered(rows)}

\* the answer built from a list of fixture dicts
DifficultyOf(team_id, infos) ==
    [team_id |-> team_id,
     fixtures |-> infos,
     average_difficulty |-> IF infos = << >> THEN 300
                            ELSE Round2(SumDifficulty(infos, 1), Len(infos)),
     total_difficulty |-> SumDifficulty(infos, 1)]

\* TeamService.get_fixture_difficulty
GetFixtureDifficulty(team_id, next_gameweeks) ==
    {DifficultyOf(team_id, infos) : infos \in GetTeamFixtures(team_id, next_gameweeks)}

\* FixtureService.get_current_gameweek: the event of the finished fixture
\* with the highest event, plus one (each of its three branches returns
\* that); 1 when no fixture is finished
FixtureCurrentGameweek ==
    LET done == {f \in fixtures : f.finished}
    IN  IF done # {}
        THEN 1 + (CHOOSE e \in {f.event : f \in done} : \A f \in done : f.event <= e)
        ELSE 1

\* the fixtures get_all_fixture_difficulty queries for one team
WindowRows(team_id, next_gameweeks) ==
    {f \in fixtures : /\ (f.team_h_id = team_id \/ f.team_a_id = team_id)
                      /\ f.event >= FixtureCurrentGameweek
                      /\ f.event <= FixtureCurrentGameweek + next_gameweeks - 1
                      /\ ~f.finished}

\* FixtureService.get_all_fixture_difficulty: one entry per team, sorted by
\* average_difficulty
GetAllFixtureDifficulty(next_gameweeks) ==
    LET ids == {t.id : t \in teams}
        PerTeam(t) == {DifficultyOf(t, InfoList(q, t)) :
                         q \in EventOrdered(WindowRows(t, next_gameweeks))}
    IN  {data \in [1..Cardinality(ids) -> UNION {PerTeam(t) : t \in ids}] :
            /\ \A t \in ids : \E i \in 1..Cardinality(ids) : data[i].team_id = t
            /\ \A i, j \in 1..Cardinality(ids) :
                  i < j => data[i].average_difficulty <= data[j].average_difficulty}

\* get_database_stats: the event of a fixture that is started and not
\* finished (whichever .first() returns), else the highest finished event
\* plus one, else 1
DatabaseStatsGameweek ==
    LET live == {f \in fixtures : f.started /\ ~f.finished}
    IN  IF live # {} THEN {f.event : f \in live} ELSE {FixtureCurrentGameweek}

Horizons == 1..MaxHorizon

RequestTeamDifficulty ==
    /\ fdr = NoRequest
    /\ \E team_id \in TeamIds, next_gameweeks \in Horizons :
         \E out \in GetFixtureDifficulty(team_id, next_gameweeks) :
            fdr' = [op |-> "team difficulty", team_id |-> team_id,
                    next_gameweeks |-> next_gameweeks, out |-> out]
    /\ UNCHANGED <<sync_vars, runs, syncing, build, advice, http, limiter, oracle, ranks>>

RequestAllDifficulty ==
    /\ fdr = NoRequest
    /\ \E next_gameweeks \in Horizons :
         \E out \in GetAllFixtureDifficulty(next_gameweeks) :
            fdr' = [op |-> "all difficulty", next_gameweeks |-> next_gameweeks,
                    out |-> out]
    /\ UNCHANGED <<sync_vars, runs, syncing, build, advice, http, limiter, oracle, ranks>>

RequestCurrentGameweek ==
    /\ fdr = NoRequest
    /\ fdr' = [op |-> "current gameweek", out |-> FixtureCurrentGameweek]
    /\ UNCHANGED <<sync_vars, runs, syncing, build, advice, http, limiter, oracle, ranks>>

RequestDatabaseStats ==
    /\ fdr = NoRequest
    /\ \E gw \in DatabaseStatsGameweek :
         fdr' = [op |-> "database stats", out |-> gw]
    /\ UNCHANGED <<sync_vars, runs, syncing, build, advice, http, limiter, oracle, ranks>>

\* the answer has been sent
Respond ==
    /\ fdr # NoRequest
    /\ fdr' = NoRequest
    /\ UNCHANGED <<sync_vars, runs, syncing, build, advice, http, limiter, oracle, ranks>>

NextFixtures ==
    \/ RequestTeamDifficulty
    \/ RequestAllDifficulty
    \/ RequestCurrentGameweek
    \/ RequestDatabaseStats
    \/ Respond

\* The fixtures a table can hold: a gameweek, not started, under way or
\* finished, either team at home, the home side rated 4 and the away side 5.
DifficultyPairs == {<<4, 5>>}
StoredFixtures ==
    {f \in [id : {1}, code : {1}, event : 1..MaxGameweek,
            finished : BOOLEAN, started : BOOLEAN,
            team_h_id : TeamIds, team_a_id : TeamIds,
            team_h_score : {NULL}, team_a_score : {NULL},
            team_h_difficulty : {d[1] : d \in DifficultyPairs},
            team_a_difficulty : {d[2] : d \in DifficultyPairs},
            kickoff_time : {NULL}] :
       /\ f.id = f.code
       /\ f.team_h_id # f.team_a_id
       /\ f.finished => f.started
       /\ <<f.team_h_difficulty, f.team_a_difficulty>> \in DifficultyPairs}

\* a number that orders the fixtures of a table by what they hold
Kind(f) ==
    f.event * 6 + (IF f.finished THEN 4 ELSE IF f.started THEN 2 ELSE 0)
    + (IF f.team_h_id = 1 THEN 1 ELSE 0)

\* The tables of at most MaxFixtures fixtures with ids 1, 2, ...; which id a
\* fixture has does not matter to the queries, so the ids follow Kind.
RECURSIVE KindOrdered(_)
KindOrdered(n) ==
    IF n = 0 THEN {<< >>}
    ELSE LET shorter == KindOrdered(n - 1)
         IN  shorter \cup
             UNION {{Append(q, f) :
                       f \in {g \in StoredFixtures :
                                q = << >> \/ Kind(q[Len(q)]) <= Kind(g)}} :
                    q \in {x \in shorter : Len(x) = n - 1}}

FixtureTables ==
    {{[q[i] EXCEPT !.id = i, !.code = i] : i \in 1..Len(q)} :
       q \in KindOrdered(MaxFixtures)}

InitFixtures ==
    /\ autoflush = FALSE
    /\ flaky = FALSE
    /\ teams = SeedTeams
    /\ players = SeedPlayers
    /\ fixtures \in FixtureTables
    /\ gwstats = {}
    /\ upstream = [teams |-> BaseTeams, players |-> BasePlayers,
                   fixtures |-> BaseFixtures, events |-> BaseEvents,
                   live |-> BaseLive]
    /\ Constructed
    /\ OverlapIdle

SpecFixtures == InitFixtures /\ [][NextFixtures]_vars

---------------------------------------------------------------------------
\* The deterministic squad builder: AIService._generate_enhanced_mock_squad
\* and _build_budget_aware_squad (ai_service.py).  Prices and budgets are in
\* tenths of a million (4.5 is 45), so the sums and comparisons of the code
\* are exact here; a share of a budget is compared by cross-multiplying.

\* position_requirements with the caps of lines 468-471 and the ratios of
\* _get_position_budget_ratio: max_price is min(cap, budget * cap_pct / 100),
\* position_budget is remaining_budget * ratio_pct / 100
PositionRequirements ==
    <<[position |-> "GK", count |-> 2, min_price |-> 40, cap |-> 60,
       cap_pct |-> 6, ratio_pct |-> 10],
      [position |-> "DEF", count |-> 5, min_price |-> 40, cap |-> 80,
       cap_pct |-> 8, ratio_pct |-> 25],
      [position |-> "MID", count |-> 5, min_price |-> 45, cap |-> 150,
       cap_pct |-> 15, ratio_pct |-> 45],
      [position |-> "FWD", count |-> 3, min_price |-> 45, cap |-> 150,
       cap_pct |-> 15, ratio_pct |-> 20]>>

Positions == {PositionRequirements[k].position : k \in 1..Len(PositionRequirements)}

\* value_score of a is greater than that of b, where value_score =
\* total_points / max(price, 0.1) + form * 2
ValueAbove(a, b) ==
    LET pa == IF a.price > 1 THEN a.price ELSE 1
        pb == IF b.price > 1 THEN b.price ELSE 1
    IN  10 * a.total_points * pb + 2 * a.form * pa * pb
          > 10 * b.total_points * pa + 2 * b.form * pa * pb

\* list.sort(key = value_score, reverse = True): descending, and stable, so
\* players of equal score keep the order of the pool
\* x, which stood before every player of the sorted list, goes behind those
\* of a greater score
RECURSIVE InsertByValue(_, _)
InsertByValue(sorted, x) ==
    IF sorted = << >> THEN <<x>>
    ELSE IF ValueAbove(Head(sorted), x)
         THEN <<Head(sorted)>> \o InsertByValue(Tail(sorted), x)
         ELSE <<x>> \o sorted

RECURSIVE SortByValue(_, _)
SortByValue(list, i) ==
    IF i > Len(list) THEN << >>
    ELSE InsertByValue(SortByValue(list, i + 1), list[i])

\* the players of the pool with one position, in pool order
RECURSIVE OfPosition(_, _, _)
OfPosition(pool, position, i) ==
    IF i > Len(pool) THEN << >>
    ELSE IF pool[i].position = position
         THEN <<pool[i]>> \o OfPosition(pool, position, i + 1)
         ELSE OfPosition(pool, position, i + 1)

\* lines 440-457
PlayersByPosition(pool) ==
    [position \in Positions |-> SortByValue(OfPosition(pool, position, 1), 1)]

\* position_players.remove(selected_player): the first equal element goes
RECURSIVE RemoveFirst(_, _)
RemoveFirst(list, x) ==
    IF list = << >> THEN << >>
    ELSE IF Head(list) = x THEN Tail(list)
    ELSE <<Head(list)>> \o RemoveFirst(Tail(list), x)

\* price <= min(position_budget, remaining_budget, max_price)
WithinCaps(price, req, budget, remaining_budget, position_budget_pct) ==
    /\ 100 * price <= position_budget_pct
    /\ price <= remaining_budget
    /\ price <= req.cap
    /\ 100 * price <= budget * req.cap_pct

\* a fallback that takes the cheapest player whether or not the remaining
\* budget pays for it
SelectPlayer_CheapestAny(position_players, req, budget, remaining_budget, position_budget_pct) ==
    LET n == Len(position_players)
        within == {k \in 1..n : WithinCaps(position_players[k].price, req, budget,
                                           remaining_budget, position_budget_pct)}
    IN  IF within # {}
        THEN CHOOSE k \in within : \A j \in within : k <= j
        ELSE CHOOSE k \in 1..n :
                \A j \in 1..n :
                   \/ position_players[k].price < position_players[j].price
                   \/ (position_players[k].price = position_players[j].price /\ k <= j)

\* lines 486-499: the first player of the ranking within the caps; failing
\* that the cheapest one the remaining budget pays for (min() returns the
\* first of the cheapest); failing that none
SelectPlayer(position_players, req, budget, remaining_budget, position_budget_pct) ==
    LET n == Len(position_players)
        within == {k \in 1..n : WithinCaps(position_players[k].price, req, budget,
                                           remaining_budget, position_budget_pct)}
        affordable == {k \in 1..n : position_players[k].price <= remaining_budget}
    IN  IF within # {}
        THEN CHOOSE k \in within : \A j \in within : k <= j
        ELSE IF affordable # {}
        THEN CHOOSE k \in affordable :
                \A j \in affordable :
                   \/ position_players[k].price < position_players[j].price
                   \/ (position_players[k].price = position_players[j].price /\ k <= j)
        ELSE 0

\* lines 503-510
FormatPlayer(selected_player, position) ==
    [player_name |-> selected_player.name,
     team |-> selected_player.team,
     position |-> position,
     price |-> selected_player.price]

RECURSIVE SumPrice(_, _)
SumPrice(list, i) == IF i > Len(list) THEN 0 ELSE list[i].price + SumPrice(list, i + 1)

\* the share of the remaining budget a position starts with, in hundredths
PositionBudget(remaining_budget, req) == remaining_budget * req.ratio_pct

\* _generate_enhanced_mock_squad is called with a pool and a budget
\* (build.op = "called"); lines 440-461: group, rank, remaining_budget = budget
BuilderGroup ==
    /\ build.op = "called"
    /\ build' = [op |-> "building",
                 players |-> build.players,
                 budget |-> build.budget,
                 by_position |-> PlayersByPosition(build.players),
                 selected_players |-> << >>,
                 remaining_budget |-> build.budget,
                 p |-> 1,
                 i |-> 0,
                 position_budget |-> PositionBudget(build.budget, PositionRequirements[1])]
    /\ UNCHANGED <<sync_vars, runs, syncing, fdr, advice, http, limiter, oracle, ranks>>

\* lines 481-514: one iteration of the inner loop that does not break
BuilderPick ==
    /\ build.op = "building"
    /\ build.p <= Len(PositionRequirements)
    /\ LET req == PositionRequirements[build.p]
           position_players == build.by_position[req.position]
           k == SelectPlayer(position_players, req, build.budget,
                             build.remaining_budget, build.position_budget)
       IN  /\ build.i < req.count
           /\ position_players # << >>
           /\ build' =
                IF k = 0 THEN [build EXCEPT !.i = @ + 1]
                ELSE [build EXCEPT
                        !.i = @ + 1,
                        !.selected_players =
                            Append(@, FormatPlayer(position_players[k], req.position)),
                        !.remaining_budget = @ - position_players[k].price,
                        !.by_position[req.position] =
                            RemoveFirst(position_players, position_players[k])]
    /\ UNCHANGED <<sync_vars, runs, syncing, fdr, advice, http, limiter, oracle, ranks>>

\* the inner loop ends (range(count) is through, or the position has no
\* player left: break) and the outer loop goes to the next position, line 479
BuilderNextPosition ==
    /\ build.op = "building"
    /\ build.p <= Len(PositionRequirements)
    /\ LET req == PositionRequirements[build.p]
       IN  build.i = req.count \/ build.by_position[req.position] = << >>
    /\ build' = [build EXCEPT
                    !.p = @ + 1,
                    !.i = 0,
                    !.position_budget =
                        IF build.p < Len(PositionRequirements)
                        THEN PositionBudget(build.remaining_budget,
                                            PositionRequirements[build.p + 1])
                        ELSE 0]
    /\ UNCHANGED <<sync_vars, runs, syncing, fdr, advice, http, limiter, oracle, ranks>>

\* lines 408-434: the recommendation returned
BuilderReturn ==
    /\ build.op = "building"
    /\ build.p > Len(PositionRequirements)
    /\ LET total_cost == SumPrice(build.selected_players, 1)
       IN  build' = [op |-> "returned",
                     players |-> build.players,
                     budget |-> build.budget,
                     remaining_budget |-> build.remaining_budget,
                     out |-> [recommendation_type |-> "squad_selection",
                              total_cost |-> Min(total_cost, build.budget),
                              budget_used |-> Min(total_cost, build.budget),
                              players |-> build.selected_players,
                              data_source |-> "real_fpl_data"]]
    /\ UNCHANGED <<sync_vars, runs, syncing, fdr, advice, http, limiter, oracle, ranks>>

NextSquad ==
    \/ BuilderGroup
    \/ BuilderPick
    \/ BuilderNextPosition
    \/ BuilderReturn

\* The pools: for each position some budget players and some premium ones,
\* a premium player having the higher value score.  The pool lists them
\* position by position, budget players first; player i is named i and
\* plays for club (i mod clubs) + 1.
BudgetPlayer(position) ==
    CASE position = "GK" -> [price |-> 45, total_points |-> 45]
      [] position = "DEF" -> [price |-> 40, total_points |-> 40]
      [] position = "MID" -> [price |-> 45, total_points |-> 45]
      [] position = "FWD" -> [price |-> 45, total_points |-> 45]

PremiumPlayer(position) ==
    CASE position = "GK" -> [price |-> 55, total_points |-> 110]
      [] position = "DEF" -> [price |-> 60, total_points |-> 120]
      [] position = "MID" -> [price |-> 80, total_points |-> 160]
      [] position = "FWD" -> [price |-> 70, total_points |-> 140]

\* how many budget and premium players of a position a pool can hold
PoolCounts ==
    [position \in Positions |->
        CASE position = "GK" -> {<<2, 0>>, <<1, 0>>, <<0, 0>>, <<2, 1>>, <<1, 1>>, <<0, 2>>}
          [] position = "DEF" -> {<<5, 0>>, <<0, 5>>, <<4, 0>>, <<3, 2>>}
          [] position = "MID" -> {<<5, 0>>, <<0, 5>>, <<4, 1>>}
          [] position = "FWD" -> {<<3, 0>>, <<0, 3>>, <<2, 0>>, <<2, 1>>}]

Pools ==
    {counts \in [Positions -> UNION {PoolCounts[position] : position \in Positions}] :
        \A position \in Positions : counts[position] \in PoolCounts[position]}

Budgets == {0, 45, 650, 1000}
Clubs == {2, 5}

PlayersOf(position, counts) ==
    [i \in 1..(counts[1] + counts[2]) |->
        LET kind == IF i <= counts[1] THEN BudgetPlayer(position)
                    ELSE PremiumPlayer(position)
        IN  [name |-> 0, team |-> 0, position |-> position, price |-> kind.price,
             total_points |-> kind.total_points, form |-> 0, status |-> "a"]]

\* Player.status: "a" is available, "i" injured.  The first so many players
\* of a pool are injured: none, one, or all of them.
Injured == {0, 1, 16}

PoolOf(counts, clubs, injured) ==
    LET raw == PlayersOf("GK", counts["GK"]) \o PlayersOf("DEF", counts["DEF"])
               \o PlayersOf("MID", counts["MID"]) \o PlayersOf("FWD", counts["FWD"])
    IN  [i \in 1..Len(raw) |->
            [raw[i] EXCEPT !.name = i, !.team = (i % clubs) + 1,
                           !.status = IF i <= injured THEN "i" ELSE "a"]]

InitSquad ==
    /\ autoflush = FALSE
    /\ flaky = FALSE
    /\ teams = SeedTeams
    /\ players = SeedPlayers
    /\ fixtures = SeedFixtures
    /\ gwstats = {}
    /\ upstream = [teams |-> BaseTeams, players |-> BasePlayers,
                   fixtures |-> BaseFixtures, events |-> BaseEvents,
                   live |-> BaseLive]
    /\ last_sync = NULL
    /\ now = 0
    /\ pc = "idle"
    /\ force = FALSE
    /\ current_gw = NULL
    /\ ret = NotCalled
    /\ result = "none"
    /\ skipped = FALSE
    /\ prev = NoPrev
    /\ OverlapIdle
    /\ RequestIdle
    /\ AdviceIdle
    /\ ClientIdle
    /\ LimiterIdle
    /\ OracleIdle
    /\ RanksIdle
    /\ \E counts \in Pools, clubs \in Clubs, budget \in Budgets, injured \in Injured :
         build = [op |-> "called", players |-> PoolOf(counts, clubs, injured),
                  budget |-> budget]

SpecSquad == InitSquad /\ [][NextSquad]_vars

---------------------------------------------------------------------------
\* The transfer advisor: AIService.get_transfer_recommendations and
\* _analyze_transfer_opportunities (ai_service.py).  Form, points per game,
\* prices, budgets and predicted points are in tenths; a score is a
\* fraction [num, den] of hundredths, so that comparisons are exact.

\* round(num / den) to the nearest integer, halves to the even neighbour
RoundHalfEven(num, den) ==
    LET q == num \div den
        r == num % den
    IN  IF 2 * r > den \/ (2 * r = den /\ q % 2 = 1) THEN q + 1 ELSE q

\* line 901: poor form, or few points per game for the price
Underperforming(player_data) ==
    \/ player_data.form < 30
    \/ (player_data.points_per_game < 40 /\ player_data.price > 60)
    \/ player_data.points_per_game < 20

\* lines 887-892: the first player of the pool with the squad player's name
\* or id; 0 when there is none
FindPlayerData(squad_player, all_players) ==
    LET hits == {k \in 1..Len(all_players) :
                   \/ all_players[k].name = squad_player.player_name
                   \/ all_players[k].id = squad_player.player_id}
    IN  IF hits = {} THEN 0 ELSE CHOOSE k \in hits : \A j \in hits : k <= j

\* line 905: the sort key
Badness(p) == p.form + p.points_per_game

\* list.sort(key) ascending, stable: x goes after the elements whose key is
\* not greater
RECURSIVE InsertByBadness(_, _)
InsertByBadness(sorted, x) ==
    IF sorted = << >> THEN <<x>>
    ELSE IF Badness(x) < Badness(Head(sorted)) THEN <<x>> \o sorted
    ELSE <<Head(sorted)>> \o InsertByBadness(Tail(sorted), x)

\* lines 881-906
RECURSIVE IdentifyUnderperformingPlayers(_, _, _)
IdentifyUnderperformingPlayers(current_squad, all_players, i) ==
    IF i = 0 THEN << >>
    ELSE LET before == IdentifyUnderperformingPlayers(current_squad, all_players, i - 1)
             k == FindPlayerData(current_squad[i], all_players)
         IN  IF k # 0 /\ Underperforming(all_players[k])
             THEN InsertByBadness(before, all_players[k])
             ELSE before

\* lines 946-965: the sum of 6 - difficulty over the first gameweeks fixtures
\* of the player's team that have a difficulty, and how many those are
RECURSIVE FixtureLoop(_, _, _, _, _, _)
FixtureLoop(team_name, fixture_list, gameweeks, i, fixture_score, fixtures_found) ==
    IF i > Len(fixture_list) \/ fixtures_found >= gameweeks
    THEN [fixture_score |-> fixture_score, fixtures_found |-> fixtures_found]
    ELSE LET fixture == fixture_list[i]
             is_home == fixture.team_h = team_name
             difficulty == IF is_home THEN fixture.team_h_difficulty
                           ELSE fixture.team_a_difficulty
         IN  IF (fixture.team_h = team_name \/ fixture.team_a = team_name)
                /\ difficulty # NULL /\ difficulty # 0
             THEN FixtureLoop(team_name, fixture_list, gameweeks, i + 1,
                              fixture_score + (6 - difficulty), fixtures_found + 1)
             ELSE FixtureLoop(team_name, fixture_list, gameweeks, i + 1,
                              fixture_score, fixtures_found)

\* line 933: form * 2 + points_per_game * 3 + fixture_score - price * 0.1
TransferScore(player, fixture_list, gameweeks) ==
    LET f == FixtureLoop(player.team, fixture_list, gameweeks, 1, 0, 0)
        n == IF f.fixtures_found >= 1 THEN f.fixtures_found ELSE 1
    IN  [num |-> n * (20 * player.form + 30 * player.points_per_game - player.price)
                 + 100 * f.fixture_score,
         den |-> n]

\* line 936
CurrentScore(underperformer) ==
    20 * underperformer.form + 30 * underperformer.points_per_game

ScoreAbove(a, b) == a.num * b.den > b.num * a.den

\* list.sort(key, reverse=True), stable
RECURSIVE InsertByScore(_, _, _, _)
InsertByScore(sorted, x, fixture_list, gameweeks) ==
    IF sorted = << >> THEN <<x>>
    ELSE IF ScoreAbove(TransferScore(x, fixture_list, gameweeks),
                       TransferScore(Head(sorted), fixture_list, gameweeks))
    THEN <<x>> \o sorted
    ELSE <<Head(sorted)>> \o InsertByScore(Tail(sorted), x, fixture_list, gameweeks)

\* lines 919-940: the players of the position, other than the underperformer
\* by name, whose score is more than 2 above the underperformer's
RECURSIVE Candidates(_, _, _, _, _)
Candidates(underperformer, all_players, fixture_list, gameweeks, i) ==
    IF i = 0 THEN << >>
    ELSE LET before == Candidates(underperformer, all_players, fixture_list, gameweeks, i - 1)
             player == all_players[i]
             transfer_score == TransferScore(player, fixture_list, gameweeks)
         IN  IF /\ player.position = underperformer.position
                /\ player.name # underperformer.name
                /\ transfer_score.num
                     > (CurrentScore(underperformer) + 200) * transfer_score.den
             THEN InsertByScore(before, player, fixture_list, gameweeks)
             ELSE before

\* lines 908-944: the five best of them
FindTransferAlternatives(underperformer, all_players, fixture_list, gameweeks) ==
    LET alternatives == Candidates(underperformer, all_players, fixture_list, gameweeks,
                                   Len(all_players))
    IN  SubSeq(alternatives, 1, Min(5, Len(alternatives)))

\* lines 967-974: round((points_per_game * 0.7 + form * 0.3) * gameweeks, 1)
CalculatePredictedPoints(player, gameweeks) ==
    RoundHalfEven((7 * player.points_per_game + 3 * player.form) * gameweeks, 10)

\* lines 976-980
CalculateExpectedGain(out_player, in_player, gameweeks) ==
    CalculatePredictedPoints(in_player, gameweeks)
    - CalculatePredictedPoints(out_player, gameweeks)

\* list[:n] as Python slices: a negative n leaves the last -n elements out
SliceTo(list, n) ==
    IF n >= 0 THEN SubSeq(list, 1, Min(n, Len(list)))
    ELSE SubSeq(list, 1, IF Len(list) + n > 0 THEN Len(list) + n ELSE 0)

\* lines 823-859: the loop over the underperformers the slice leaves
RECURSIVE TransferLoop(_, _, _, _, _, _, _, _)
TransferLoop(underperformers, i, all_players, fixture_list, budget, gameweeks, transfer_opportunities, total_cost_change) ==
    IF i > Len(underperformers)
    THEN [transfers |-> transfer_opportunities, total_cost_change |-> total_cost_change]
    ELSE LET underperformer == underperformers[i]
             alternatives == FindTransferAlternatives(underperformer, all_players,
                                                      fixture_list, gameweeks)
             best_alternative == alternatives[1]
             cost_change == best_alternative.price - underperformer.price
         IN  IF alternatives # << >> /\ total_cost_change + cost_change <= budget
             THEN TransferLoop(underperformers, i + 1, all_players, fixture_list, budget, gameweeks,
                    Append(transfer_opportunities,
                       [out |-> [player_name |-> underperformer.name,
                                 team |-> underperformer.team,
                                 position |-> underperformer.position,
                                 price |-> underperformer.price],
                        in |-> [player_name |-> best_alternative.name,
                                team |-> best_alternative.team,
                                position |-> best_alternative.position,
                                price |-> best_alternative.price,
                                predicted_points |->
                                   CalculatePredictedPoints(best_alternative, gameweeks)],
                        priority |-> Len(transfer_opportunities) + 1,
                        expected_gain |->
                           CalculateExpectedGain(underperformer, best_alternative, gameweeks),
                        cost_change |-> cost_change]),
                    total_cost_change + cost_change)
             ELSE TransferLoop(underperformers, i + 1, all_players, fixture_list, budget, gameweeks,
                               transfer_opportunities, total_cost_change)

\* lines 805-879
AnalyzeTransferOpportunities(current_squad, all_players, fixture_list, budget, free_transfers, gameweeks) ==
    LET underperformers == IdentifyUnderperformingPlayers(current_squad, all_players,
                                                          Len(current_squad))
        found == TransferLoop(SliceTo(underperformers, free_transfers), 1, all_players,
                              fixture_list, budget, gameweeks, << >>, 0)
    IN  [recommendation_type |-> "transfers",
         transfers_suggested |-> Len(found.transfers),
         budget_remaining |-> budget - found.total_cost_change,
         transfers |-> found.transfers,
         data_source |-> "real_fpl_data"]

\* lines 1055-1109: the canned recommendation
FallbackTransferRecommendation(budget) ==
    [recommendation_type |-> "transfers",
     transfers_suggested |-> 1,
     budget_remaining |-> budget - 25,
     transfers |-> <<[out |-> [player_name |-> "Rashford", team |-> "Manchester Utd",
                               position |-> "MID", price |-> 85],
                      in |-> [player_name |-> "Palmer", team |-> "Chelsea",
                              position |-> "MID", price |-> 110,
                              predicted_points |-> 250],
                      priority |-> 1,
                      expected_gain |-> 85,
                      cost_change |-> 25]>>,
     data_source |-> "fallback_recommendation"]

\* lines 784-791 and 798-803: no squad was supplied, or loading the data
\* timed out
AdviseFallback ==
    /\ advice.op = "called"
    /\ advice.load = "timeout" \/ advice.current_squad = << >>
    /\ advice' = [advice EXCEPT !.op = "returned"] @@
                  [out |-> FallbackTransferRecommendation(advice.budget)]
    /\ UNCHANGED <<sync_vars, runs, syncing, fdr, build, http, limiter, oracle, ranks>>

\* lines 784-796: the data loaded and a squad was supplied
AdviseAnalyze ==
    /\ advice.op = "called"
    /\ advice.load = "ok" /\ advice.current_squad # << >>
    /\ advice' = [advice EXCEPT !.op = "returned"] @@
                  [out |-> AnalyzeTransferOpportunities(
                              advice.current_squad, advice.players, advice.fixtures,
                              advice.budget, advice.free_transfers, advice.gameweeks)]
    /\ UNCHANGED <<sync_vars, runs, syncing, fdr, build, http, limiter, oracle, ranks>>

NextAdvice == AdviseFallback \/ AdviseAnalyze

\* The players table as _fetch_real_player_data lists it: two midfielders
\* out of form, a good one, an injured one who is better still, and one
\* whose only merit is an easy fixture.
AdvisorPlayers ==
    <<[id |-> 1, name |-> "Ward", team |-> "Arsenal", position |-> "MID", price |-> 50,
       form |-> 0, points_per_game |-> 30, status |-> "a"],
      [id |-> 2, name |-> "Hale", team |-> "Arsenal", position |-> "MID", price |-> 50,
       form |-> 29, points_per_game |-> 5, status |-> "a"],
      [id |-> 3, name |-> "Cole", team |-> "Chelsea", position |-> "MID", price |-> 70,
       form |-> 80, points_per_game |-> 60, status |-> "a"],
      [id |-> 4, name |-> "Reid", team |-> "Chelsea", position |-> "MID", price |-> 60,
       form |-> 90, points_per_game |-> 70, status |-> "i"],
      [id |-> 5, name |-> "Nash", team |-> "Everton", position |-> "MID", price |-> 40,
       form |-> 0, points_per_game |-> 29, status |-> "a"]>>

\* the squads a caller can supply: players by name, one of them unknown
SquadPlayers ==
    <<[player_name |-> "Ward", player_id |-> NULL],
      [player_name |-> "Hale", player_id |-> NULL],
      [player_name |-> "Cole", player_id |-> NULL],
      [player_name |-> "Webb", player_id |-> NULL]>>

\* the unfinished fixtures: none, or Everton at home to Arsenal
AdvisorFixtures ==
    {<< >>,
     <<[team_h |-> "Everton", team_a |-> "Arsenal",
        team_h_difficulty |-> 1, team_a_difficulty |-> 5]>>}

TransferBudgets == {0, 25, 50}
FreeTransfers == {-1, 0, 1, 2}
GameweekCounts == {1, 3}

\* the elements of a list at the indices of S, in order
RECURSIVE Keep(_, _, _)
Keep(list, S, i) ==
    IF i > Len(list) THEN << >>
    ELSE (IF i \in S THEN <<list[i]>> ELSE << >>) \o Keep(list, S, i + 1)

SubLists(list) == {Keep(list, S, 1) : S \in SUBSET (1..Len(list))}

InitAdvice ==
    /\ autoflush = FALSE
    /\ flaky = FALSE
    /\ teams = SeedTeams
    /\ players = SeedPlayers
    /\ fixtures = SeedFixtures
    /\ gwstats = {}
    /\ upstream = [teams |-> BaseTeams, players |-> BasePlayers,
                   fixtures |-> BaseFixtures, events |-> BaseEvents,
                   live |-> BaseLive]
    /\ last_sync = NULL
    /\ now = 0
    /\ pc = "idle"
    /\ force = FALSE
    /\ current_gw = NULL
    /\ ret = NotCalled
    /\ result = "none"
    /\ skipped = FALSE
    /\ prev = NoPrev
    /\ OverlapIdle
    /\ RequestIdle
    /\ BuilderIdle
    /\ ClientIdle
    /\ LimiterIdle
    /\ OracleIdle
    /\ RanksIdle
    /\ \E current_squad \in SubLists(SquadPlayers), pool \in SubLists(AdvisorPlayers),
          fx \in AdvisorFixtures, budget \in TransferBudgets,
          free_transfers \in FreeTransfers, gameweeks \in GameweekCounts,
          load \in {"ok", "timeout"} :
         advice = [op |-> "called", current_squad |-> current_squad, players |-> pool,
                   fixtures |-> fx, budget |-> budget, free_transfers |-> free_transfers,
                   gameweeks |-> gameweeks, load |-> load]

SpecAdvice == InitAdvice /\ [][NextAdvice]_vars

---------------------------------------------------------------------------
\* The shared FPL API client: the singleton fpl_api (fpl_api_service.py) under
\* the coroutines that use it in one event loop.  http.session is fpl_api's
\* session attribute, an httpx.AsyncClient told by a number; http.closed are
\* the clients that have been closed.  A coroutine runs till its next await,
\* so the steps below are the stretches between awaits.  The upstream is
\* healthy: a request over an open client is answered.

\* how often the api-health endpoint is called
MaxChecks == 2

\* what a coroutine fetches inside async with fpl_api: sync_all_data its four
\* collections and the current gameweek, check_api_health the bootstrap data
Fetches(kind) ==
    IF kind = "sync" THEN <<"teams", "players", "fixtures", "events", "live">>
    ELSE <<"bootstrap">>

\* the position of a coroutine that has left async with
Left(kind) == Len(Fetches(kind)) + 2

\* a coroutine before async with: which it is, where it is (0 before async
\* with, k before its k-th fetch, then before __aexit__, then Left), the
\* client it was given, what its fetches returned, the calls made
NewCoroutine(kind) ==
    [kind |-> kind, pc |-> 0, own |-> NULL, got |-> << >>, calls |-> 1]

\* __aenter__ (lines 17-19): a new client replaces the session
ClientEnter(c) ==
    /\ http.co[c].pc = 0
    /\ http' = [http EXCEPT !.session = http.made + 1,
                            !.made = @ + 1,
                            !.co[c].pc = 1,
                            !.co[c].own = http.made + 1]
    /\ UNCHANGED <<sync_vars, runs, syncing, fdr, build, advice, limiter, oracle, ranks>>

\* _make_request (lines 25-44): a client is made if there is none; the
\* request over a closed client raises, which is caught, and None is
\* returned
ClientFetch(c) ==
    /\ http.co[c].pc >= 1
    /\ http.co[c].pc <= Len(Fetches(http.co[c].kind))
    /\ LET session == IF http.session = NULL THEN http.made + 1 ELSE http.session
       IN  http' = [http EXCEPT !.session = session,
                               !.made = IF http.session = NULL THEN @ + 1 ELSE @,
                               !.co[c].pc = @ + 1,
                               !.co[c].got = Append(@, session \notin http.closed)]
    /\ UNCHANGED <<sync_vars, runs, syncing, fdr, build, advice, limiter, oracle, ranks>>

\* __aexit__ (lines 21-23): the session of the moment is closed and stays
\* the session
ClientExit(c) ==
    /\ http.co[c].pc = Len(Fetches(http.co[c].kind)) + 1
    /\ http' = [http EXCEPT
                   !.closed = IF http.session = NULL THEN @ ELSE @ \cup {http.session},
                   !.co[c].pc = @ + 1]
    /\ UNCHANGED <<sync_vars, runs, syncing, fdr, build, advice, limiter, oracle, ranks>>

\* the api-health endpoint is called again
CheckAgain(c) ==
    /\ http.co[c].kind = "health"
    /\ http.co[c].pc = Left("health")
    /\ http.co[c].calls < MaxChecks
    /\ http' = [http EXCEPT !.co[c] = [NewCoroutine("health") EXCEPT
                                          !.calls = http.co[c].calls + 1]]
    /\ UNCHANGED <<sync_vars, runs, syncing, fdr, build, advice, limiter, oracle, ranks>>

NextClient ==
    \/ \E c \in 1..Len(http.co) : ClientEnter(c)
    \/ \E c \in 1..Len(http.co) : ClientFetch(c)
    \/ \E c \in 1..Len(http.co) : ClientExit(c)
    \/ \E c \in 1..Len(http.co) : CheckAgain(c)

\* A sync is about to run; beside it the api-health endpoint, a second
\* sync, or both.
InitClient ==
    /\ autoflush = FALSE
    /\ flaky = FALSE
    /\ teams = SeedTeams
    /\ players = SeedPlayers
    /\ fixtures = SeedFixtures
    /\ gwstats = {}
    /\ upstream = [teams |-> BaseTeams, players |-> BasePlayers,
                   fixtures |-> BaseFixtures, events |-> BaseEvents,
                   live |-> BaseLive]
    /\ last_sync = NULL
    /\ now = 0
    /\ pc = "idle"
    /\ force = FALSE
    /\ current_gw = NULL
    /\ ret = NotCalled
    /\ result = "none"
    /\ skipped = FALSE
    /\ prev = NoPrev
    /\ OverlapIdle
    /\ RequestIdle
    /\ BuilderIdle
    /\ AdviceIdle
    /\ LimiterIdle
    /\ OracleIdle
    /\ RanksIdle
    /\ \E others \in {<<"health">>, <<"sync">>, <<"health", "sync">>} :
         http = [session |-> NULL, closed |-> {}, made |-> 0,
                 co |-> <<NewCoroutine("sync")>>
                        \o [k \in 1..Len(others) |-> NewCoroutine(others[k])]]

SpecClient == InitClient /\ [][NextClient]_vars

---------------------------------------------------------------------------
\* The rate limiter: RateLimitMiddleware (core/middleware.py), one instance
\* for all requests of a process.  limiter.request_counts is its dict,
\* limiter.time the clock in seconds, limiter.handling the clients whose
\* admitted requests are awaiting call_next.  limiter.admitted counts the
\* requests admitted since the last reset and limiter.last tells how the
\* last request to return from dispatch came out; the code has neither.

\* requests_per_minute, kept small
RequestsPerMinute == 2
\* the length of the window in seconds, line 128
Window == 60
\* requests that arrive in all, and how long the clock runs
MaxRequests == 4
MaxSeconds == 150

Clients == {"10.0.0.1", "10.0.0.2"}
Elapses == {30, 61}

\* dict.get(key, 0)
Get(dict, key) == IF key \in DOMAIN dict THEN dict[key] ELSE 0

\* dict[key] = value
Put(dict, key, value) ==
    [k \in DOMAIN dict \cup {key} |-> IF k = key THEN value ELSE dict[k]]

\* lines 125-151: dispatch up to await call_next, or to the 429 response
Arrive(client_ip) ==
    /\ limiter.arrived < MaxRequests
    /\ LET reset == limiter.time - limiter.last_reset > Window
           counts == IF reset THEN << >> ELSE limiter.request_counts
           admitted == IF reset THEN << >> ELSE limiter.admitted
           current_count == Get(counts, client_ip)
       IN  IF current_count >= RequestsPerMinute
           THEN limiter' = [limiter EXCEPT
                              !.request_counts = counts,
                              !.last_reset = IF reset THEN limiter.time ELSE @,
                              !.admitted = admitted,
                              !.arrived = @ + 1,
                              !.last = [kind |-> "rejected", client |-> client_ip,
                                        before |-> limiter.request_counts,
                                        after |-> counts]]
           ELSE limiter' = [limiter EXCEPT
                              !.request_counts = Put(counts, client_ip, current_count + 1),
                              !.last_reset = IF reset THEN limiter.time ELSE @,
                              !.admitted = Put(admitted, client_ip,
                                               Get(admitted, client_ip) + 1),
                              !.arrived = @ + 1,
                              !.handling = Append(@, client_ip)]
    /\ UNCHANGED <<sync_vars, runs, syncing, fdr, build, advice, http, oracle, ranks>>

\* lines 151-159: the handler has answered; request_counts[client_ip] raises
\* KeyError when the client has no counter
Finish(i) ==
    /\ i \in 1..Len(limiter.handling)
    /\ LET client_ip == limiter.handling[i]
           rest == [k \in 1..(Len(limiter.handling) - 1) |->
                      IF k < i THEN limiter.handling[k] ELSE limiter.handling[k + 1]]
       IN  limiter' = [limiter EXCEPT
                         !.handling = rest,
                         !.last =
                            IF client_ip \in DOMAIN limiter.request_counts
                            THEN [kind |-> "headers", client |-> client_ip,
                                  limit |-> RequestsPerMinute,
                                  remaining |->
                                     IF RequestsPerMinute
                                          - limiter.request_counts[client_ip] > 0
                                     THEN RequestsPerMinute
                                          - limiter.request_counts[client_ip]
                                     ELSE 0]
                            ELSE [kind |-> "KeyError", client |-> client_ip]]
    /\ UNCHANGED <<sync_vars, runs, syncing, fdr, build, advice, http, oracle, ranks>>

\* time.time() moves on
Elapse(seconds) ==
    /\ limiter.time + seconds <= MaxSeconds
    /\ limiter' = [limiter EXCEPT !.time = @ + seconds]
    /\ UNCHANGED <<sync_vars, runs, syncing, fdr, build, advice, http, oracle, ranks>>

NextLimiter ==
    \/ \E client_ip \in Clients : Arrive(client_ip)
    \/ \E i \in 1..MaxRequests : Finish(i)
    \/ \E seconds \in Elapses : Elapse(seconds)

\* lines 119-123: the middleware as constructed
InitLimiter ==
    /\ autoflush = FALSE
    /\ flaky = FALSE
    /\ teams = SeedTeams
    /\ players = SeedPlayers
    /\ fixtures = SeedFixtures
    /\ gwstats = {}
    /\ upstream = [teams |-> BaseTeams, players |-> BasePlayers,
                   fixtures |-> BaseFixtures, events |-> BaseEvents,
                   live |-> BaseLive]
    /\ Constructed
    /\ OverlapIdle

SpecLimiter == InitLimiter /\ [][NextLimiter]_vars

---------------------------------------------------------------------------
\* The squad recommendation (ai_service.py, get_squad_recommendation and
\* _generate_llm_squad_recommendation).  A request (build.op = "requested")
\* carries the player data, the budget and AIService.use_llm; `oracle` records
\* what the LLM did for it.

\* _generate_fallback_squad_recommendation, lines 730-774: a fixed list
FallbackSquad ==
    <<[player_name |-> "Haaland", team |-> "Manchester City", position |-> "FWD", price |-> 150],
      [player_name |-> "Salah", team |-> "Liverpool", position |-> "MID", price |-> 130],
      [player_name |-> "Palmer", team |-> "Chelsea", position |-> "MID", price |-> 110],
      [player_name |-> "Saka", team |-> "Arsenal", position |-> "MID", price |-> 100],
      [player_name |-> "Mbeumo", team |-> "Brentford", position |-> "MID", price |-> 75],
      [player_name |-> "Cunha", team |-> "Wolves", position |-> "FWD", price |-> 65],
      [player_name |-> "Gabriel", team |-> "Arsenal", position |-> "DEF", price |-> 60],
      [player_name |-> "Gvardiol", team |-> "Manchester City", position |-> "DEF", price |-> 55],
      [player_name |-> "Lewis", team |-> "Newcastle", position |-> "DEF", price |-> 45],
      [player_name |-> "Raya", team |-> "Arsenal", position |-> "GKP", price |-> 55],
      [player_name |-> "Fabianski", team |-> "West Ham", position |-> "GKP", price |-> 40]>>

FallbackSquadRecommendation(budget) ==
    [recommendation_type |-> "squad_selection",
     total_cost |-> Min(budget, 1000),
     budget_used |-> Min(budget, 1000),
     players |-> FallbackSquad,
     data_source |-> "fallback_data"]

\* lines 317-331: what is returned when the LLM's text is not JSON
UnparsedRecommendation(budget, llm_response) ==
    [recommendation_type |-> "squad_selection",
     total_cost |-> budget,
     players |-> << >>,
     llm_response |-> llm_response,
     ai_reasoning |-> llm_response,
     data_source |-> "real_fpl_data",
     llm_model |-> "gpt"]

\* lines 305-313: the parsed JSON with four keys set over it
ParsedRecommendation(recommendation) ==
    [key \in DOMAIN recommendation \union {"recommendation_type", "data_source", "llm_model"} |->
        CASE key = "recommendation_type" -> "squad_selection"
          [] key = "data_source" -> "real_fpl_data"
          [] key = "llm_model" -> "gpt"
          [] OTHER -> recommendation[key]]

Recommended(req, out) ==
    [op |-> "returned", players |-> req.players, budget |-> req.budget,
     remaining_budget |-> req.budget, out |-> out]

Delegated(req) == [op |-> "called", players |-> req.players, budget |-> req.budget]

\* lines 165-167 and 179-184: a fetch times out or raises
RecommendFallback ==
    /\ build.op = "requested"
    /\ build' = Recommended(build, FallbackSquadRecommendation(build.budget))
    /\ oracle' = "unasked"
    /\ UNCHANGED <<sync_vars, runs, syncing, fdr, advice, http, limiter, ranks>>

\* lines 170, 174-178: no LLM configured, _generate_enhanced_mock_squad runs
RecommendEnhanced ==
    /\ build.op = "requested"
    /\ ~build.use_llm
    /\ build' = Delegated(build)
    /\ oracle' = "unconfigured"
    /\ UNCHANGED <<sync_vars, runs, syncing, fdr, advice, http, limiter, ranks>>

\* lines 170-173 and 333-338: the call to the LLM raises
RecommendLlmRaises ==
    /\ build.op = "requested"
    /\ build.use_llm
    /\ build' = Delegated(build)
    /\ oracle' = "raised"
    /\ UNCHANGED <<sync_vars, runs, syncing, fdr, advice, http, limiter, ranks>>

\* lines 288-305 and 315-331: the LLM answers with text json.loads rejects
RecommendLlmUnparsable ==
    /\ build.op = "requested"
    /\ build.use_llm
    /\ build' = Recommended(build, UnparsedRecommendation(build.budget, "prose"))
    /\ oracle' = "unparsable"
    /\ UNCHANGED <<sync_vars, runs, syncing, fdr, advice, http, limiter, ranks>>

\* lines 288-313: the LLM answers with a JSON object
RecommendLlmParsed(recommendation) ==
    /\ build.op = "requested"
    /\ build.use_llm
    /\ build' = Recommended(build, ParsedRecommendation(recommendation))
    /\ oracle' = "parsed"
    /\ UNCHANGED <<sync_vars, runs, syncing, fdr, advice, http, limiter, ranks>>

\* JSON objects an LLM can answer with: nothing in the code constrains them
OracleAnswers ==
    {[players |-> << >>, total_cost |-> 0],
     [players |-> <<[player_name |-> 99, team |-> 1, position |-> "FWD", price |-> 150]>>,
      total_cost |-> 150],
     [squad |-> "none"]}

NextRecommend ==
    \/ RecommendFallback
    \/ RecommendEnhanced
    \/ RecommendLlmRaises
    \/ RecommendLlmUnparsable
    \/ \E recommendation \in OracleAnswers : RecommendLlmParsed(recommendation)
    \/ BuilderGroup
    \/ BuilderPick
    \/ BuilderNextPosition
    \/ BuilderReturn

\* the player data of a request: a pool of budget players only, or a mixed one
RecommendPools ==
    {counts \in Pools :
        \/ \A position \in Positions : counts[position][2] = 0 /\ counts[position][1] >= 3 - (IF position = "GK" THEN 1 ELSE 0)
        \/ \A position \in Positions : counts[position][1] >= 1 /\ counts[position][2] >= 1 /\ counts[position][1] >= 2}

InitRecommend ==
    /\ autoflush = FALSE
    /\ flaky = FALSE
    /\ teams = SeedTeams
    /\ players = SeedPlayers
    /\ fixtures = SeedFixtures
    /\ gwstats = {}
    /\ upstream = [teams |-> BaseTeams, players |-> BasePlayers,
                   fixtures |-> BaseFixtures, events |-> BaseEvents,
                   live |-> BaseLive]
    /\ last_sync = NULL
    /\ now = 0
    /\ pc = "idle"
    /\ force = FALSE
    /\ current_gw = NULL
    /\ ret = NotCalled
    /\ result = "none"
    /\ skipped = FALSE
    /\ prev = NoPrev
    /\ OverlapIdle
    /\ RequestIdle
    /\ AdviceIdle
    /\ ClientIdle
    /\ LimiterIdle
    /\ OracleIdle
    /\ RanksIdle
    /\ \E counts \in RecommendPools, budget \in Budgets, use_llm \in BOOLEAN :
         build = [op |-> "requested", players |-> PoolOf(counts, 5, 0),
                  budget |-> budget, use_llm |-> use_llm]

SpecRecommend == InitRecommend /\ [][NextRecommend]_vars

---------------------------------------------------------------------------
\* The three operations of ai_service.py that rank the players of a pool:
\* _build_budget_aware_squad (lines 440-457), _build_optimal_squad (lines
\* 1700-1709) and _get_top_players_by_position (lines 1657-1670, the
\* definition in force: it replaces the one of line 340).  `ranks` holds one
\* pool and, for each operation that has run, its lists by position.

\* line 1709: total_points / max(price, 1) of a is greater than that of b
PointsPerPriceAbove(a, b) ==
    LET pa == IF a.price > 10 THEN a.price ELSE 10
        pb == IF b.price > 10 THEN b.price ELSE 10
    IN  a.total_points * pb > b.total_points * pa

\* line 1668: total_points of a is greater than that of b
TotalPointsAbove(a, b) == a.total_points > b.total_points

\* list.sort(key, reverse = True) and sorted(list, key, reverse = True) are
\* stable like the sort of the budget-aware builder
RECURSIVE InsertByPointsPerPrice(_, _)
InsertByPointsPerPrice(sorted, x) ==
    IF sorted = << >> THEN <<x>>
    ELSE IF PointsPerPriceAbove(Head(sorted), x)
         THEN <<Head(sorted)>> \o InsertByPointsPerPrice(Tail(sorted), x)
         ELSE <<x>> \o sorted

RECURSIVE SortByPointsPerPrice(_, _)
SortByPointsPerPrice(list, i) ==
    IF i > Len(list) THEN << >>
    ELSE InsertByPointsPerPrice(SortByPointsPerPrice(list, i + 1), list[i])

RECURSIVE InsertByTotalPoints(_, _)
InsertByTotalPoints(sorted, x) ==
    IF sorted = << >> THEN <<x>>
    ELSE IF TotalPointsAbove(Head(sorted), x)
         THEN <<Head(sorted)>> \o InsertByTotalPoints(Tail(sorted), x)
         ELSE <<x>> \o sorted

RECURSIVE SortByTotalPoints(_, _)
SortByTotalPoints(list, i) ==
    IF i > Len(list) THEN << >>
    ELSE InsertByTotalPoints(SortByTotalPoints(list, i + 1), list[i])

\* _build_optimal_squad, lines 1700-1709: by_position after the sort
ByPosition(pool) ==
    [position \in Positions |-> SortByPointsPerPrice(OfPosition(pool, position, 1), 1)]

\* line 1668: the slice [:10]
TopCount == 10

\* _get_top_players_by_position, lines 1657-1670
GetTopPlayersByPosition(pool) ==
    [position \in Positions |->
        SliceTo(SortByTotalPoints(OfPosition(pool, position, 1), 1), TopCount)]

NotRanked == [position \in Positions |-> << >>]

RankBudgetAware ==
    /\ ranks.op = "ranking"
    /\ "budget_aware" \notin ranks.done
    /\ ranks' = [ranks EXCEPT !.budget_aware = PlayersByPosition(ranks.players),
                              !.done = @ \union {"budget_aware"}]
    /\ UNCHANGED <<sync_vars, runs, syncing, fdr, build, advice, http, limiter, oracle>>

RankOptimal ==
    /\ ranks.op = "ranking"
    /\ "optimal" \notin ranks.done
    /\ ranks' = [ranks EXCEPT !.optimal = ByPosition(ranks.players),
                              !.done = @ \union {"optimal"}]
    /\ UNCHANGED <<sync_vars, runs, syncing, fdr, build, advice, http, limiter, oracle>>

RankTop ==
    /\ ranks.op = "ranking"
    /\ "top" \notin ranks.done
    /\ ranks' = [ranks EXCEPT !.top = GetTopPlayersByPosition(ranks.players),
                              !.done = @ \union {"top"}]
    /\ UNCHANGED <<sync_vars, runs, syncing, fdr, build, advice, http, limiter, oracle>>

NextRank ==
    \/ RankBudgetAware
    \/ RankOptimal
    \/ RankTop

\* The pools ranked: up to MaxPool midfielders and forwards; prices in
\* tenths, total points and form in units.  Player i is named i.
MaxPool == 2
RankPrices == {40, 100}
RankPoints == {0, 40, 100}
RankForms == {0, 5}
RankPositions == {"MID", "FWD"}

RankPlayers ==
    [name : {0}, team : {1}, position : RankPositions, price : RankPrices,
     total_points : RankPoints, form : RankForms, status : {"a"}]

RankPools ==
    UNION {{[i \in 1..n |-> [list[i] EXCEPT !.name = i]] : list \in [1..n -> RankPlayers]} :
             n \in 1..MaxPool}

InitRank ==
    /\ autoflush = FALSE
    /\ flaky = FALSE
    /\ teams = SeedTeams
    /\ players = SeedPlayers
    /\ fixtures = SeedFixtures
    /\ gwstats = {}
    /\ upstream = [teams |-> BaseTeams, players |-> BasePlayers,
                   fixtures |-> BaseFixtures, events |-> BaseEvents,
                   live |-> BaseLive]
    /\ last_sync = NULL
    /\ now = 0
    /\ pc = "idle"
    /\ force = FALSE
    /\ current_gw = NULL
    /\ ret = NotCalled
    /\ result = "none"
    /\ skipped = FALSE
    /\ prev = NoPrev
    /\ OverlapIdle
    /\ RequestIdle
    /\ BuilderIdle
    /\ AdviceIdle
    /\ ClientIdle
    /\ LimiterIdle
    /\ OracleIdle
    /\ \E pool \in RankPools :
         ranks = [op |-> "ranking", players |-> pool, done |-> {},
                  budget_aware |-> NotRanked, optimal |-> NotRanked, top |-> NotRanked]

SpecRank == InitRank /\ [][NextRank]_vars

---------------------------------------------------------------------------
\* Properties

\* the last record a list holds for each natural key: the one a stored row
\* was last reconciled with
LastOf(batch, Key(_)) ==
    {batch[i] : i \in {j \in 1..Len(batch) :
                         \A k \in (j + 1)..Len(batch) : Key(batch[k]) # Key(batch[j])}}


\* C1: a forced call in which all four collection syncs return True, made
\* right after such a call against the same upstream data, leaves the four
\* tables exactly as that call left them.
C1_Idempotent ==
    (pc = "done" /\ force /\ ~skipped /\ AllTrue(ret) /\ prev.valid)
        => store = prev.store

C1_Witness ==
    /\ pc = "done" /\ force /\ AllTrue(ret) /\ prev.valid
    /\ store = prev.store
    /\ Len(upstream.players) = 2
    /\ Cardinality(players) = 2

\* C2: in every state the store holds at most one team per code, one player
\* per id, one fixture per code and one stats row per (player_id, gameweek).
C2_OnePerKey ==
    /\ \A a, b \in teams : a.code = b.code => a = b
    /\ \A a, b \in players : a.id = b.id => a = b
    /\ \A a, b \in fixtures : a.code = b.code => a = b
    /\ \A a, b \in gwstats :
          (a.player_id = b.player_id /\ a.gameweek = b.gameweek) => a = b

\* a second successful forced call has upserted keys the first one stored
C2_Witness ==
    /\ pc = "done" /\ AllTrue(ret) /\ prev.valid
    /\ Len(upstream.live.elements) = 2
    /\ Cardinality(gwstats) = 2

\* C3: once a collection sync has returned True, the stored row of every
\* natural key of the list equals the last source record of that key: for a
\* team its name, for a player its position code, team reference and price,
\* for a fixture its gameweek, its two team references and its kickoff time.
C3_StoredEqualsSource ==
    /\ (pc = "players" /\ ret["teams"] = "True") =>
          \A d \in LastOf(upstream.teams, CodeOf) :
             \E t \in teams : t.code = d.code /\ t.name = d.name
    /\ (pc = "fixtures" /\ ret["players"] = "True") =>
          \A d \in LastOf(upstream.players, IdOf) :
             \E p \in players : /\ p.id = d.id
                                /\ p.element_type = d.element_type
                                /\ p.team_id = d.team
                                /\ p.now_cost = d.now_cost
    /\ (pc = "gameweek" /\ ret["fixtures"] = "True") =>
          \A d \in LastOf(upstream.fixtures, CodeOf) :
             \E f \in fixtures :
                /\ f.code = d.code
                /\ f.event = d.event
                /\ f.team_h_id = d.team_h
                /\ f.team_a_id = d.team_a
                /\ d.kickoff_time = "none" => f.kickoff_time = NULL
                /\ d.kickoff_time = "2025-08-16T14:00:00Z" => f.kickoff_time = 1

Earlier(c) ==
    CASE c = "teams" -> {}
      [] c = "players" -> {"teams"}
      [] c = "fixtures" -> {"teams", "players"}
      [] c = "stats" -> {"teams", "players", "fixtures"}

\* C4: a collection sync starts only after the syncs of the collections
\* before it (teams, players, fixtures, stats) have returned, and a table is
\* written only by the sync of its own collection; so no player is written
\* before sync_teams has returned and no stats row before sync_players has.
C4_Order ==
    [][/\ \A c \in Collections :
            (ret[c] = "not called" /\ ret'[c] # "not called") =>
                /\ \A e \in Earlier(c) : ret[e] # "not called"
                /\ \A l \in Collections : c \in Earlier(l) => ret[l] = "not called"
       /\ teams' # teams => ret["teams"] = "not called" /\ ret'["teams"] = "True"
       /\ players' # players =>
             /\ ret["players"] = "not called" /\ ret'["players"] = "True"
             /\ ret["teams"] # "not called"
       /\ fixtures' # fixtures =>
             ret["fixtures"] = "not called" /\ ret'["fixtures"] = "True"
       /\ gwstats' # gwstats =>
             /\ ret["stats"] = "not called" /\ ret'["stats"] = "True"
             /\ ret["players"] # "not called"]_vars

\* a call that wrote players and stats rows after the teams sync failed
C4_Witness ==
    /\ pc = "done" /\ ~skipped
    /\ ret["teams"] = "False" /\ ret["players"] = "True" /\ ret["stats"] = "True"

\* C5 as claimed: when a collection sync of a call has failed, every other
\* collection sync of that call has still been called when the call ends.
C5_AllRemainingAttempted ==
    (pc = "done" /\ ~skipped /\ \E c \in Collections : ret[c] = "False")
        => \A c \in Collections : ret[c] # "not called"

\* C5 as amended: whatever the earlier collection syncs returned, a call that
\* is not skipped calls sync_teams, sync_players and sync_fixtures, and calls
\* sync_gameweek_stats when the current-gameweek lookup returned a gameweek;
\* and a collection sync that returned True has stored a row for every
\* natural key of its list.
C5_RemainingAttempted ==
    /\ (pc = "done" /\ ~skipped) =>
          /\ \A c \in {"teams", "players", "fixtures"} : ret[c] # "not called"
          /\ current_gw # NULL => ret["stats"] # "not called"
    /\ (pc \notin {"idle", "teams"} /\ ~skipped /\ ret["teams"] = "True") =>
          \A d \in Range(upstream.teams) : \E t \in teams : t.code = d.code
    /\ (pc \notin {"idle", "teams", "players"} /\ ~skipped /\ ret["players"] = "True") =>
          \A d \in Range(upstream.players) : \E p \in players : p.id = d.id
    /\ (pc \in {"gameweek", "stats", "done"} /\ ~skipped /\ ret["fixtures"] = "True") =>
          \A d \in Range(upstream.fixtures) : \E f \in fixtures : f.code = d.code
    /\ (pc = "done" /\ ~skipped /\ ret["stats"] = "True") =>
          \A d \in Range(upstream.live.elements) :
             \E s \in gwstats : s.player_id = KeyToInt(d.key) /\ s.gameweek = current_gw

\* the teams sync and the fixtures sync failed, and the players sync and the
\* stats sync of the same call still ran and stored their rows
C5_Witness ==
    /\ pc = "done" /\ ~skipped
    /\ ret["teams"] = "False" /\ ret["fixtures"] = "False"
    /\ ret["players"] = "True" /\ ret["stats"] = "True"
    /\ Len(upstream.live.elements) = 2

\* C6: a call that is not skipped returns True only if its teams sync and its
\* players sync both returned True.
C6_SuccessNeedsTeamsAndPlayers ==
    (pc = "done" /\ ~skipped /\ result = "True")
        => (ret["teams"] = "True" /\ ret["players"] = "True")

\* C7: last_sync changes only in a call whose four collection syncs all
\* returned True.
C7_LastSyncOnlyAfterFullSuccess ==
    [][last_sync' # last_sync => AllTrue(ret')]_vars

\* C8: a call with force = False made less than DATA_REFRESH_INTERVAL_HOURS
\* after last_sync returns True at once, with no collection sync called and
\* the four tables and last_sync unchanged; every other call (forced, or
\* no sync recorded, or the interval elapsed) goes on to the fetches.
C8_SkipIsFrame ==
    [][(pc = "idle" /\ pc' # "idle") =>
          IF ~force' /\ last_sync # NULL
                /\ now - last_sync < DATA_REFRESH_INTERVAL_HOURS
          THEN /\ pc' = "done" /\ skipped' /\ result' = "True"
               /\ ret' = NotCalled
               /\ store' = store
               /\ last_sync' = last_sync
          ELSE pc' = "teams" /\ ~skipped']_vars

\* a call skipped five hours after the last sync
C8_Witness ==
    /\ pc = "done" /\ skipped /\ ~force
    /\ now - last_sync = DATA_REFRESH_INTERVAL_HOURS - 1

\* C9: the fixtures table changes only in a fixtures sync that returns True,
\* so a call whose fixtures sync fails leaves it as it was; and the teams and
\* players tables change only in their own syncs, so what those stored stays
\* stored when the fixtures sync fails.
C9_FailedFixturesUnchanged ==
    [][/\ fixtures' # fixtures => (pc = "fixtures" /\ ret'["fixtures"] = "True")
       /\ (pc = "fixtures" /\ ret'["fixtures"] = "False") => fixtures' = fixtures
       /\ teams' # teams => pc = "teams"
       /\ players' # players => pc = "players"]_vars

\* the second record of the fixtures list was rejected after the first one
\* had been written in the session, teams and players having succeeded
C9_Witness ==
    /\ pc = "gameweek"
    /\ ret["teams"] = "True" /\ ret["players"] = "True" /\ ret["fixtures"] = "False"
    /\ Len(upstream.fixtures) = 2
    /\ upstream.fixtures[1].event # NULL
    /\ upstream.fixtures[2].event = NULL
    /\ upstream.fixtures[1].code # upstream.fixtures[2].code
    /\ \A f \in fixtures : f.code # upstream.fixtures[1].code

\* C10: the value a call returns tells a call whose fixtures or stats sync
\* failed from a call whose four syncs succeeded (which returns True).
C10_ResultTellsOutcomes ==
    (pc = "done" /\ ~skipped /\ (ret["fixtures"] = "False" \/ ret["stats"] = "False"))
        => result # "True"

\* a source record the schema admits once the teams are stored
PlayerRecordOk(d) == \E t \in teams : t.id = d.team
FixtureRecordOk(d) ==
    /\ d.event # NULL
    /\ \E t \in teams : t.id = d.team_h
    /\ \E t \in teams : t.id = d.team_a

\* C11: when the upstream answered, every record of the players list and of
\* the fixtures list that the schema admits is stored once the collection's
\* sync has run, whatever the other records of the list are: an invalid
\* record (a fixture without a gameweek, a reference to a team that is not
\* stored) is skipped alone.
C11_InvalidRecordSkippedAlone ==
    /\ (~flaky /\ ~skipped /\ pc = "fixtures") =>
          \A d \in Range(upstream.players) :
             PlayerRecordOk(d) => \E p \in players : p.id = d.id
    /\ (~flaky /\ ~skipped /\ pc = "gameweek") =>
          \A d \in Range(upstream.fixtures) :
             FixtureRecordOk(d) => \E f \in fixtures : f.code = d.code

\* C12: in every state no stored player has a negative price and every
\* stored fixture with finished = TRUE has both scores; so a source record
\* that breaks either rule is never written, neither as a new row nor over
\* the row stored for its key.
C12_EntityInvariants ==
    /\ \A p \in players : p.now_cost >= 0
    /\ \A f \in fixtures :
          f.finished => (f.team_h_score # NULL /\ f.team_a_score # NULL)

\* C13: when two runs sync the same collection together, the table never
\* holds two rows for one natural key, and neither run's collection sync
\* returns False (its batch rejected) on account of a row the other run
\* committed between its query and its commit.
C13_OverlapAtomic ==
    /\ \A a, b \in players : a.id = b.id => a = b
    /\ \A a, b \in gwstats :
          (a.player_id = b.player_id /\ a.gameweek = b.gameweek) => a = b
    /\ \A r \in RunIds : runs[r].pc = "done" => runs[r].ret = "True"

\* the per-team answers the request in fdr was given
Answers ==
    IF fdr.op = "team difficulty" THEN {fdr.out}
    ELSE IF fdr.op = "all difficulty" THEN Range(fdr.out)
    ELSE {}

C15_WindowSelection ==
    \A a \in Answers :
       LET sel == WindowRows(a.team_id, fdr.next_gameweeks)
           n == Len(a.fixtures)
       IN  /\ n = Cardinality(sel)
           /\ {a.fixtures[i].fixture_id : i \in 1..n} = {f.id : f \in sel}
           /\ \A i \in 1..n : \A f \in sel :
                 f.id = a.fixtures[i].fixture_id =>
                    a.fixtures[i] = FixtureInfo(f, a.team_id)
           /\ \A i, j \in 1..n :
                 i < j => a.fixtures[i].gameweek <= a.fixtures[j].gameweek
           /\ a.total_difficulty = SumDifficulty(a.fixtures, 1)

\* the current gameweek as the derivation rule has it
DerivedGameweek ==
    LET live == {f \in fixtures : f.started /\ ~f.finished}
        complete == {e \in {f.event : f \in fixtures} :
                       \A f \in fixtures : f.event = e => f.finished}
    IN  IF live # {}
        THEN CHOOSE e \in {f.event : f \in live} : \A f \in live : e <= f.event
        ELSE IF complete # {}
        THEN 1 + (CHOOSE e \in complete : \A x \in complete : x <= e)
        ELSE 1

\* C16: the current gameweek reported, by FixtureService as by the database
\* statistics, is the lowest gameweek with a fixture started and not
\* finished; with no such fixture, the one after the latest gameweek whose
\* fixtures are all finished; with neither, 1.
C16_CurrentGameweek ==
    fdr.op \in {"current gameweek", "database stats"} => fdr.out = DerivedGameweek

\* how many players of a list have the position
CountOf(list, position) ==
    Cardinality({i \in 1..Len(list) : list[i].position = position})

\* C17: at every step of the construction the remaining budget is not
\* negative and is the budget less the prices of the players selected so
\* far; so the prices of the squad returned sum to at most the budget,
\* fallback picks included.
C17_WithinBudget ==
    /\ build.op = "building" =>
          /\ build.remaining_budget >= 0
          /\ build.remaining_budget
                = build.budget - SumPrice(build.selected_players, 1)
    /\ build.op = "returned" =>
          /\ SumPrice(build.out.players, 1) <= build.budget
          /\ build.out.total_cost = SumPrice(build.out.players, 1)

\* 65.0 is below every cap share, so all fifteen players of this squad were
\* fallback picks, and they use the budget up
C17_Witness ==
    /\ build.op = "returned"
    /\ build.budget = 650
    /\ Len(build.out.players) = 15
    /\ SumPrice(build.out.players, 1) = build.budget

\* the sum of the n lowest prices of a list
RECURSIVE CheapestSum(_, _)
CheapestSum(list, n) ==
    IF n = 0 \/ list = << >> THEN 0
    ELSE LET k == CHOOSE i \in 1..Len(list) :
                     \A j \in 1..Len(list) : list[i].price <= list[j].price
         IN  list[k].price + CheapestSum(RemoveFirst(list, list[k]), n - 1)

\* the cost of the cheapest squad of the formation a pool holds
MinimumCost(pool) ==
    LET Cost(k) == CheapestSum(OfPosition(pool, PositionRequirements[k].position, 1),
                               PositionRequirements[k].count)
    IN  Cost(1) + Cost(2) + Cost(3) + Cost(4)

Sufficient(pool) ==
    \A k \in 1..Len(PositionRequirements) :
       CountOf(pool, PositionRequirements[k].position) >= PositionRequirements[k].count

\* C18: from a pool with at least 2 GK, 5 DEF, 5 MID and 3 FWD and a budget
\* of at least the cost of the pool's cheapest such squad, the builder
\* returns exactly 2 GK, 5 DEF, 5 MID and 3 FWD.
C18_FormationFilled ==
    (build.op = "returned" /\ Sufficient(build.players)
        /\ build.budget >= MinimumCost(build.players))
    => \A k \in 1..Len(PositionRequirements) :
          CountOf(build.out.players, PositionRequirements[k].position)
            = PositionRequirements[k].count

\* C19: no club has more than 3 players in a squad the builder returns.
C19_ThreePerTeam ==
    build.op = "returned" =>
       \A i \in 1..Len(build.out.players) :
          Cardinality({j \in 1..Len(build.out.players) :
                         build.out.players[j].team = build.out.players[i].team}) <= 3

\* the result says of itself that the squad is incomplete
FlaggedIncomplete(out) == "incomplete" \in DOMAIN out /\ out.incomplete

\* C20: from a pool that has fewer players of a position than the formation
\* requires, the builder returns no more players of that position than the
\* pool has, the result is flagged incomplete, and the budget left is the
\* budget less the prices of the players returned.
C20_ShortPositionFlagged ==
    (build.op = "returned" /\ ~Sufficient(build.players)) =>
       /\ \A position \in Positions :
             CountOf(build.out.players, position) <= CountOf(build.players, position)
       /\ build.remaining_budget = build.budget - SumPrice(build.out.players, 1)
       /\ FlaggedIncomplete(build.out)

\* the pool player of a name
Named(pool, name) == {pool[k] : k \in {j \in 1..Len(pool) : pool[j].name = name}}

\* C21: no player listed by the squad builder, and no player a transfer
\* brings in, has a status other than available; from a pool of injured
\* players only, nobody is listed.
C21_OnlyAvailableListed ==
    /\ build.op = "returned" =>
          \A i \in 1..Len(build.out.players) :
             \A p \in Named(build.players, build.out.players[i].player_name) :
                p.status = "a"
    /\ (advice.op = "returned" /\ advice.out.data_source = "real_fpl_data") =>
          \A i \in 1..Len(advice.out.transfers) :
             \A p \in Named(advice.players, advice.out.transfers[i].in.player_name) :
                p.status = "a"

\* the names of the players of the squad supplied
SquadNames == {advice.current_squad[i].player_name : i \in 1..Len(advice.current_squad)}

RECURSIVE SumCostChange(_, _)
SumCostChange(transfers, i) ==
    IF i > Len(transfers) THEN 0
    ELSE transfers[i].cost_change + SumCostChange(transfers, i + 1)

\* C22: in every output of the transfer recommendation, the canned one
\* included, every player going out is one of the squad supplied and the
\* cost changes of the transfers sum to at most the budget supplied.
C22_OutOfSquadWithinBudget ==
    advice.op = "returned" =>
       /\ \A i \in 1..Len(advice.out.transfers) :
             advice.out.transfers[i].out.player_name \in SquadNames
       /\ SumCostChange(advice.out.transfers, 1) <= advice.budget

\* the same of the outputs computed from the data
C22_ComputedOutputs ==
    (advice.op = "returned" /\ advice.out.data_source = "real_fpl_data") =>
       /\ \A i \in 1..Len(advice.out.transfers) :
             advice.out.transfers[i].out.player_name \in SquadNames
       /\ SumCostChange(advice.out.transfers, 1) <= advice.budget

\* C23: the transfers returned have the priorities 1, 2, ... in order and
\* their expected gains do not increase along the list, the expected gain
\* being the predicted points of the player coming in less those of the
\* player going out.
C23_LargestGainFirst ==
    advice.op = "returned" =>
       LET transfers == advice.out.transfers
       IN  /\ \A i \in 1..Len(transfers) : transfers[i].priority = i
           /\ \A i \in 1..(Len(transfers) - 1) :
                 transfers[i].expected_gain >= transfers[i + 1].expected_gain
           /\ advice.out.data_source = "real_fpl_data" =>
                 \A i \in 1..Len(transfers) :
                    \A o \in Named(advice.players, transfers[i].out.player_name) :
                       transfers[i].expected_gain
                         = transfers[i].in.predicted_points
                           - CalculatePredictedPoints(o, advice.gameweeks)

\* C25: the players going out are listed worst first (form plus points per
\* game ascending) and there are at most max(0, free_transfers) transfers.
C25_AtMostFreeTransfers ==
    (advice.op = "returned" /\ advice.out.data_source = "real_fpl_data") =>
       LET transfers == advice.out.transfers
       IN  /\ Len(transfers) <= (IF advice.free_transfers > 0
                                  THEN advice.free_transfers ELSE 0)
           /\ \A i \in 1..(Len(transfers) - 1) :
                 \A a \in Named(advice.players, transfers[i].out.player_name),
                    b \in Named(advice.players, transfers[i + 1].out.player_name) :
                    Badness(a) <= Badness(b)

\* C28: no player coming in is one of the squad supplied, and no player
\* comes in twice.
C28_InIsNewAndOnce ==
    (advice.op = "returned" /\ advice.out.data_source = "real_fpl_data") =>
       LET transfers == advice.out.transfers
       IN  /\ \A i \in 1..Len(transfers) : transfers[i].in.player_name \notin SquadNames
           /\ \A i, j \in 1..Len(transfers) :
                 transfers[i].in.player_name = transfers[j].in.player_name => i = j

\* C29: every transfer returned has an expected gain above zero.
C29_PositiveGain ==
    (advice.op = "returned" /\ advice.out.data_source = "real_fpl_data") =>
       \A i \in 1..Len(advice.out.transfers) :
          advice.out.transfers[i].expected_gain > 0

\* C27: the client a sync was given when it entered async with fpl_api is
\* the session, and is open, for as long as the sync is inside; and every
\* fetch of a sync succeeds.
C27_SessionKept ==
    \A c \in 1..Len(http.co) :
       http.co[c].kind = "sync" =>
          /\ (http.co[c].pc >= 1 /\ http.co[c].pc < Left("sync")) =>
                (http.session = http.co[c].own /\ http.co[c].own \notin http.closed)
          /\ \A k \in 1..Len(http.co[c].got) : http.co[c].got[k]

\* C30: a request that was admitted returns with its rate-limit headers; no
\* client has more than requests_per_minute requests admitted since the
\* last reset; a rejected request leaves the counters as they were.
C30_AdmittedCompletes ==
    /\ limiter.last.kind # "KeyError"
    /\ \A c \in DOMAIN limiter.admitted : limiter.admitted[c] <= RequestsPerMinute
    /\ limiter.last.kind = "rejected" => limiter.last.before = limiter.last.after

\* the same without the first part
C30_AdmissionBounded ==
    /\ \A c \in DOMAIN limiter.admitted : limiter.admitted[c] <= RequestsPerMinute
    /\ limiter.last.kind = "rejected" => limiter.last.before = limiter.last.after

\* C24: a squad recommendation made while the LLM is unconfigured, or raised,
\* or answered with text that is not JSON, is the deterministic builder's
\* squad over the request's player data: it carries no LLM text, lists only
\* players of that data at their prices, costs what they cost, and is empty
\* only when no player of the data is affordable.
C24_BuilderSquadWithoutOracle ==
    (build.op = "returned" /\ oracle \in {"unconfigured", "raised", "unparsable"}) =>
        /\ "llm_response" \notin DOMAIN build.out
        /\ \A k \in DOMAIN build.out.players :
              \E i \in DOMAIN build.players :
                 /\ build.players[i].name = build.out.players[k].player_name
                 /\ build.players[i].price = build.out.players[k].price
        /\ build.out.total_cost = Min(SumPrice(build.out.players, 1), build.budget)
        /\ (\E i \in DOMAIN build.players : build.players[i].price <= build.budget) =>
              build.out.players # << >>

\* the same with the unparsable answer left out
C24_BuilderSquadWhenNotAnswered ==
    (build.op = "returned" /\ oracle \in {"unconfigured", "raised"}) =>
        /\ "llm_response" \notin DOMAIN build.out
        /\ \A k \in DOMAIN build.out.players :
              \E i \in DOMAIN build.players :
                 /\ build.players[i].name = build.out.players[k].player_name
                 /\ build.players[i].price = build.out.players[k].price
        /\ build.out.total_cost = Min(SumPrice(build.out.players, 1), build.budget)
        /\ (\E i \in DOMAIN build.players : build.players[i].price <= build.budget) =>
              build.out.players # << >>

\* C26: the budget-aware squad builder, the pre-season squad builder and
\* top-players-by-position put the players of a pool in the same order: once
\* all three have ranked it, their lists agree position by position.
C26_SameOrderEverywhere ==
    (ranks.op = "ranking" /\ ranks.done = {"budget_aware", "optimal", "top"}) =>
        \A position \in Positions :
            /\ ranks.budget_aware[position] = ranks.optimal[position]
            /\ ranks.budget_aware[position] = ranks.top[position]

====
